---- MODULE Spec2Model ----
(***************************************************************************)
(* Fund commitment pacing tool: the portfolio waterfall aggregator         *)
(* (NewPortfolioBuilder.getPortfolioAnalysis, the older                    *)
(* PortfolioBuilder.getNetCashflowAnalysis) and the per-fund metrics       *)
(* calculator (FundManagement.getFundMetrics, ExportDialog.handleExport,   *)
(* CashflowAnalysisView.getVintageAnalysis).                               *)
(*                                                                         *)
(* Money and percentages are integers (a percentage is a whole number of   *)
(* units, a commitment a whole number of currency units), so sums and      *)
(* products are exact.  A division is modelled by JsDivide, which keeps    *)
(* the three outcomes of an IEEE division (a finite quotient, Infinity,    *)
(* NaN) apart.  An optional value (x | undefined) is a sequence of length  *)
(* at most one.  TLC's integers are 32 bits wide: the amounts of the mock  *)
(* data fit, and the operators below avoid larger intermediate products.   *)
(***************************************************************************)
EXTENDS Integers, Sequences, FiniteSets, TLC

VARIABLES
    mounted,               \* which component tree is rendered
    currentView,           \* MainMenu: 'menu' | 'clients' | 'database'
    generalFunds,          \* localStorage 'generalFunds': sequence of fund ids
    generalFundCashflows,  \* localStorage 'generalFundCashflows'
    portfolios,            \* localStorage 'portfolios': sequence of portfolio ids
    portfolioPositions,    \* localStorage 'portfolioPositions'
    selectedPortfolio,     \* NewPortfolioBuilder useState: <<>> is ''
    selectedPortfolioData, \* NewPortfolioBuilder: the last render's analysis
    uploadedCashflows,     \* PortfolioBuilder useState (set by CashflowUpload)
    netCashflowAnalysis,   \* PortfolioBuilder: the last render's analysis
    funds,                 \* Dashboard, localStorage 'funds'
    cashflows,             \* Dashboard, localStorage 'cashflows'
    fundMetrics,           \* FundManagement: getFundMetrics of each fund
    vintageAnalysis,       \* CashflowAnalysis: getVintageAnalysis()
    overallMetrics,        \* Dashboard: getOverallMetrics()
    selectedFunds,         \* ExportDialog useState: the ids ticked
    downloaded,            \* ExportDialog: the rows the last handler downloaded
    args,                  \* a call of an exported function: its arguments
    returned               \* that call's result, <<>> until it has returned

portfolioVars == <<currentView, generalFunds, generalFundCashflows, portfolios,
                   portfolioPositions, selectedPortfolio, selectedPortfolioData>>
legacyVars == <<uploadedCashflows, netCashflowAnalysis>>
metricsVars == <<funds, cashflows, fundMetrics, vintageAnalysis, overallMetrics,
                 selectedFunds, downloaded>>
callVars == <<args, returned>>
vars == <<mounted, portfolioVars, legacyVars, metricsVars, callVars>>

(***************************************************************************)
(* Bounds and input domains.                                               *)
(***************************************************************************)
MaxCashflows == 3      \* general fund cashflow records held in the store
MaxPositions == 2      \* positions held in the store
MaxNewCashflows == 2   \* cashflows added to the dashboard's mock cashflows

GeneralFundIds == {"gf1", "gf2"}
PortfolioIds == {"p1"}
\* 2, 9, 10: numeric order and the order of their decimal strings differ
YearChoices == {2, 9, 10}
\* <<contributionsPercentage, distributionsPercentage>> of an uploaded line
PercentageChoices == {<<-1, 0>>, <<0, 1>>}
CommitmentChoices == {2}
\* the number of lines of cashflow text in one bulk upload
LineCounts == {1, 2}

(***************************************************************************)
(* JavaScript helpers.                                                     *)
(***************************************************************************)
RECURSIVE Digits(_)
Digits(n) == IF n < 10 THEN <<48 + n>> ELSE Digits(n \div 10) \o <<48 + (n % 10)>>

\* Number.prototype.toString of an integer, as UTF-16 code units
NumberToString(n) == IF n < 0 THEN <<45>> \o Digits(-n) ELSE Digits(n)

\* the < of two strings: code unit by code unit, a proper prefix is smaller
RECURSIVE StringLess(_, _)
StringLess(a, b) ==
    IF b = <<>> THEN FALSE
    ELSE IF a = <<>> THEN TRUE
    ELSE IF Head(a) # Head(b) THEN Head(a) < Head(b)
    ELSE StringLess(Tail(a), Tail(b))

\* Array.prototype.sort() without a compare function: elements are converted
\* to strings and compared as strings
SortCompareDefault(x, y) == StringLess(NumberToString(x), NumberToString(y))

\* the sorted array of distinct numbers (the elements of a Set are distinct,
\* and so are their strings, so the result does not depend on the algorithm)
RECURSIVE ArraySort(_)
ArraySort(S) ==
    IF S = {} THEN <<>>
    ELSE LET m == CHOOSE x \in S : \A y \in S \ {x} : SortCompareDefault(x, y)
         IN <<m>> \o ArraySort(S \ {m})

\* Array.prototype.find's index: the first index satisfying Test, 0 if none
FindIndex(arr, Test(_)) ==
    IF \E i \in 1..Len(arr) : Test(arr[i])
    THEN CHOOSE i \in 1..Len(arr) : Test(arr[i]) /\ \A j \in 1..(i - 1) : ~Test(arr[j])
    ELSE 0

\* Array.prototype.filter
Filter(arr, Test(_)) == SelectSeq(arr, Test)

(***************************************************************************)
(* Numbers that come out of a division.  A finite quotient is kept as a    *)
(* fraction in lowest terms with a positive denominator, so two quotients  *)
(* are equal exactly when the fractions are; the other outcomes of an IEEE *)
(* division are Infinity, -Infinity and NaN.                               *)
(***************************************************************************)
Abs(n) == IF n < 0 THEN -n ELSE n

RECURSIVE Gcd(_, _)
Gcd(a, b) == IF b = 0 THEN a ELSE Gcd(b, a % b)

Finite(num, den) ==
    LET g == Gcd(Abs(num), Abs(den))
        sign == IF den < 0 THEN -1 ELSE 1
    IN [kind |-> "finite", num |-> sign * (num \div g), den |-> sign * (den \div g)]

Integer(n) == [kind |-> "finite", num |-> n, den |-> 1]
NaN == [kind |-> "NaN"]
Infinity == [kind |-> "Infinity"]
NegativeInfinity == [kind |-> "-Infinity"]

\* a / b of two integers
JsDivide(a, b) ==
    IF b # 0 THEN Finite(a, b)
    ELSE IF a = 0 THEN NaN
    ELSE IF a > 0 THEN Infinity
    ELSE NegativeInfinity

\* q * n for an integer n > 0 (n and the denominator are reduced first, which
\* keeps the product small)
JsTimes(q, n) ==
    IF q.kind = "finite"
    THEN LET g == Gcd(n, q.den) IN Finite(q.num * (n \div g), q.den \div g)
    ELSE q

\* the digits of whole + rem / den after that many more decimal places, the
\* last one rounded to the nearest, upwards when both are equally near
RECURSIVE RoundedDigits(_, _, _, _)
RoundedDigits(whole, rem, den, digits) ==
    IF digits = 0 THEN (IF 2 * rem >= den THEN whole + 1 ELSE whole)
    ELSE RoundedDigits(whole * 10 + (rem * 10) \div den, (rem * 10) % den, den, digits - 1)

\* Number.prototype.toFixed: the nearest decimal of that many fraction digits,
\* the larger one of two equally near; its digits are kept as the integer
\* scaled.  Infinity and NaN give the strings "Infinity" and "NaN"
ToFixed(q, digits) ==
    IF q.kind # "finite" THEN [kind |-> q.kind]
    ELSE LET n == RoundedDigits(Abs(q.num) \div q.den, Abs(q.num) % q.den, q.den, digits)
         IN [kind |-> "fixed", digits |-> digits,
             scaled |-> IF q.num < 0 THEN -n ELSE n]

(***************************************************************************)
(* The metrics calculator: FundManagement.getFundMetrics,                  *)
(* CashflowAnalysis.getVintageAnalysis, Dashboard.getOverallMetrics and    *)
(* the metrics of ExportDialog.handleExport.                               *)
(***************************************************************************)
\* App.tsx, mockFunds: the default of localStorage 'funds'
mockFunds ==
    << [id |-> "fund-1", vintage |-> 2020, commitmentAmount |-> 100000000],
       [id |-> "fund-2", vintage |-> 2019, commitmentAmount |-> 150000000],
       [id |-> "fund-3", vintage |-> 2021, commitmentAmount |-> 75000000],
       [id |-> "fund-4", vintage |-> 2022, commitmentAmount |-> 50000000] >>

Cashflow(fundId, year, quarter, calls, distributions, nav) ==
    [fundId |-> fundId, year |-> year, quarter |-> quarter,
     calls |-> calls, distributions |-> distributions, nav |-> nav]

\* App.tsx, mockCashflows: the default of localStorage 'cashflows'
mockCashflows ==
    << Cashflow("fund-1", 2020, 4, 5000000, 0, 5000000),
       Cashflow("fund-1", 2021, 1, 8000000, 0, 12500000),
       Cashflow("fund-1", 2021, 2, 12000000, 2000000, 22000000),
       Cashflow("fund-1", 2021, 3, 15000000, 5000000, 31000000),
       Cashflow("fund-1", 2021, 4, 10000000, 8000000, 32000000),
       Cashflow("fund-1", 2022, 1, 8000000, 12000000, 27000000),
       Cashflow("fund-2", 2019, 3, 10000000, 0, 10000000),
       Cashflow("fund-2", 2019, 4, 15000000, 0, 24000000),
       Cashflow("fund-2", 2020, 1, 20000000, 3000000, 40000000),
       Cashflow("fund-2", 2020, 2, 25000000, 8000000, 55000000),
       Cashflow("fund-3", 2021, 2, 8000000, 0, 8000000),
       Cashflow("fund-3", 2021, 3, 12000000, 1000000, 18500000),
       Cashflow("fund-3", 2021, 4, 15000000, 2000000, 30000000),
       Cashflow("fund-4", 2022, 1, 5000000, 0, 5000000),
       Cashflow("fund-4", 2022, 2, 8000000, 0, 12500000) >>

\* a compare function that looks at the year only
CompareYearOnly(a, b) == b.year - a.year

\* (a, b) => b.year - a.year || b.quarter - a.quarter
CompareLatestFirst(a, b) ==
    IF b.year - a.year # 0 THEN b.year - a.year ELSE b.quarter - a.quarter

\* Array.prototype.sort with that compare function.  The sort is stable:
\* elements that compare equal keep their order
RECURSIVE SortLatestFirst(_)
SortLatestFirst(arr) ==
    IF arr = <<>> THEN <<>>
    ELSE LET sorted == SortLatestFirst(SubSeq(arr, 1, Len(arr) - 1))
             x == arr[Len(arr)]
             k == Cardinality({i \in 1..Len(sorted) : CompareLatestFirst(sorted[i], x) <= 0})
         IN SubSeq(sorted, 1, k) \o <<x>> \o SubSeq(sorted, k + 1, Len(sorted))

\* cashflows.filter(cf => cf.fundId === fund.id)
FundCashflows(fund, allCashflows) ==
    LET OfFund(cf) == cf.fundId = fund.id
    IN SelectSeq(allCashflows, OfFund)

\* reduce((sum, cf) => sum + cf.calls, 0)
RECURSIVE SumCalls(_)
SumCalls(fundCashflows) ==
    IF fundCashflows = <<>> THEN 0
    ELSE SumCalls(SubSeq(fundCashflows, 1, Len(fundCashflows) - 1))
            + fundCashflows[Len(fundCashflows)].calls

\* reduce((sum, cf) => sum + cf.distributions, 0)
RECURSIVE SumDistributions(_)
SumDistributions(fundCashflows) ==
    IF fundCashflows = <<>> THEN 0
    ELSE SumDistributions(SubSeq(fundCashflows, 1, Len(fundCashflows) - 1))
            + fundCashflows[Len(fundCashflows)].distributions

\* fundCashflows.sort(...)[0]?.nav || 0, and the same value written as
\* fundCashflows.length > 0 ? fundCashflows.sort(...)[0].nav : 0
LatestNav(fundCashflows) ==
    IF fundCashflows = <<>> THEN 0 ELSE SortLatestFirst(fundCashflows)[1].nav

\* a multiple of the distributions alone
MultipleWithoutNav(totalCalls, totalDistributions, currentNav) ==
    IF totalCalls > 0 THEN JsDivide(totalDistributions, totalCalls) ELSE Integer(0)

\* totalCalls > 0 ? (totalDistributions + currentNav) / totalCalls : 0
Multiple(totalCalls, totalDistributions, currentNav) ==
    IF totalCalls > 0 THEN JsDivide(totalDistributions + currentNav, totalCalls)
    ELSE Integer(0)

\* (totalCalls / fund.commitmentAmount) * 100
CalledPercentage(totalCalls, commitmentAmount) ==
    JsTimes(JsDivide(totalCalls, commitmentAmount), 100)

\* FundManagement.getFundMetrics
getFundMetrics(fund, allCashflows) ==
    LET fundCashflows == FundCashflows(fund, allCashflows)
        totalCalls == SumCalls(fundCashflows)
        totalDistributions == SumDistributions(fundCashflows)
        currentNav == LatestNav(fundCashflows)
    IN IF Len(fundCashflows) = 0
       THEN [totalCalls |-> 0, totalDistributions |-> 0, currentNav |-> 0,
             netCashflow |-> 0, multiple |-> Integer(0), calledPercentage |-> Integer(0)]
       ELSE [totalCalls |-> totalCalls,
             totalDistributions |-> totalDistributions,
             currentNav |-> currentNav,
             netCashflow |-> totalDistributions - totalCalls,
             multiple |-> Multiple(totalCalls, totalDistributions, currentNav),
             calledPercentage |-> CalledPercentage(totalCalls, fund.commitmentAmount)]

\* FundManagement's table: one row of metrics per fund
RenderFundManagement(allFunds, allCashflows) ==
    [i \in 1..Len(allFunds) |-> getFundMetrics(allFunds[i], allCashflows)]

\* vintageData.sort((a, b) => a.vintage - b.vintage), stable
RECURSIVE SortByVintage(_)
SortByVintage(arr) ==
    IF arr = <<>> THEN <<>>
    ELSE LET sorted == SortByVintage(SubSeq(arr, 1, Len(arr) - 1))
             x == arr[Len(arr)]
             k == Cardinality({i \in 1..Len(sorted) : sorted[i].vintage - x.vintage <= 0})
         IN SubSeq(sorted, 1, k) \o <<x>> \o SubSeq(sorted, k + 1, Len(sorted))

\* the entry of getVintageAnalysis for one fund (fundName stands for the id)
VintageEntry(fund, allCashflows) ==
    LET fundCashflows == FundCashflows(fund, allCashflows)
        totalCalls == SumCalls(fundCashflows)
        totalDistributions == SumDistributions(fundCashflows)
        latestNav == LatestNav(fundCashflows)
    IN [vintage |-> fund.vintage,
        fundName |-> fund.id,
        commitment |-> fund.commitmentAmount,
        totalCalls |-> totalCalls,
        totalDistributions |-> totalDistributions,
        currentNav |-> latestNav,
        multiple |-> Multiple(totalCalls, totalDistributions, latestNav),
        calledPercentage |-> CalledPercentage(totalCalls, fund.commitmentAmount),
        netCashflow |-> totalDistributions - totalCalls]

\* CashflowAnalysis.getVintageAnalysis
getVintageAnalysis(allFunds, allCashflows) ==
    SortByVintage([i \in 1..Len(allFunds) |-> VintageEntry(allFunds[i], allCashflows)])

\* Dashboard.getOverallMetrics: the sums over the funds
RECURSIVE getOverallMetrics(_, _)
getOverallMetrics(allFunds, allCashflows) ==
    IF allFunds = <<>> THEN [totalCommitments |-> 0, totalCalls |-> 0, totalNav |-> 0]
    ELSE LET rest == getOverallMetrics(SubSeq(allFunds, 1, Len(allFunds) - 1), allCashflows)
             fund == allFunds[Len(allFunds)]
             fundCashflows == FundCashflows(fund, allCashflows)
         IN [totalCommitments |-> rest.totalCommitments + fund.commitmentAmount,
             totalCalls |-> rest.totalCalls + SumCalls(fundCashflows),
             totalNav |-> rest.totalNav + LatestNav(fundCashflows)]

\* ExportDialog.handleExport, lines 32-50: a fund with its metrics
FundWithMetrics(fund, allCashflows) ==
    LET fundCashflows == FundCashflows(fund, allCashflows)
        totalCalls == SumCalls(fundCashflows)
        totalDistributions == SumDistributions(fundCashflows)
        latestNav == LatestNav(fundCashflows)
    IN [id |-> fund.id,
        commitmentAmount |-> fund.commitmentAmount,
        totalCalls |-> totalCalls,
        totalDistributions |-> totalDistributions,
        currentNav |-> latestNav,
        multiple |-> ToFixed(Multiple(totalCalls, totalDistributions, latestNav), 2),
        calledPercentage |-> ToFixed(CalledPercentage(totalCalls, fund.commitmentAmount), 1)]

\* no exported function is being called
NoCall == args = <<>> /\ returned = <<>>

\* the state of the dashboard's metrics before any handler has run
InitMetrics ==
    /\ funds = mockFunds
    /\ cashflows = mockCashflows
    /\ fundMetrics = RenderFundManagement(mockFunds, mockCashflows)
    /\ vintageAnalysis = getVintageAnalysis(mockFunds, mockCashflows)
    /\ overallMetrics = getOverallMetrics(mockFunds, mockCashflows)
    /\ selectedFunds = [i \in 1..Len(mockFunds) |-> mockFunds[i].id]
    /\ downloaded = <<>>

(***************************************************************************)
(* NewPortfolioBuilder.getPortfolioAnalysis                                *)
(***************************************************************************)
\* lines 133-137: the Set of the years of the positions' funds' cashflows
AllYears(positions, fundCashflows) ==
    {fundCashflows[i].year : i \in {i \in 1..Len(fundCashflows) :
        \E k \in 1..Len(positions) : fundCashflows[i].fundId = positions[k].fundId}}

\* sums of the percentages alone, the commitment amounts left out
RECURSIVE YearTotalsOfPercentages(_, _, _)
YearTotalsOfPercentages(positions, fundCashflows, year) ==
    IF positions = <<>> THEN [contributions |-> 0, distributions |-> 0]
    ELSE LET position == positions[Len(positions)]
             rest == YearTotalsOfPercentages(
                         SubSeq(positions, 1, Len(positions) - 1), fundCashflows, year)
             Match(cf) == cf.fundId = position.fundId /\ cf.year = year
             i == FindIndex(fundCashflows, Match)
         IN IF i # 0
            THEN [contributions |-> rest.contributions
                      + fundCashflows[i].contributionsPercentage,
                  distributions |-> rest.distributions
                      + fundCashflows[i].distributionsPercentage]
            ELSE rest

\* lines 143-151: the two sums over the positions, in the positions' order
RECURSIVE YearTotals(_, _, _)
YearTotals(positions, fundCashflows, year) ==
    IF positions = <<>> THEN [contributions |-> 0, distributions |-> 0]
    ELSE LET position == positions[Len(positions)]
             rest == YearTotals(SubSeq(positions, 1, Len(positions) - 1), fundCashflows, year)
             Match(cf) == cf.fundId = position.fundId /\ cf.year = year
             i == FindIndex(fundCashflows, Match)
         IN IF i # 0
            THEN [contributions |-> rest.contributions
                      + position.commitmentAmount * fundCashflows[i].contributionsPercentage,
                  distributions |-> rest.distributions
                      + position.commitmentAmount * fundCashflows[i].distributionsPercentage]
            ELSE rest

\* lines 139-160: one entry per year of the sorted axis
WaterfallEntry(positions, fundCashflows, year) ==
    LET t == YearTotals(positions, fundCashflows, year)
    IN [year |-> year,
        contributions |-> t.contributions,
        distributions |-> t.distributions,
        netCashflow |-> t.contributions + t.distributions,
        cumulativeNet |-> 0]

\* a forEach that writes each year's own netCashflow and carries nothing over
AccumulateWithoutCarry(data, cumulativeNet) ==
    [i \in 1..Len(data) |-> [data[i] EXCEPT !.cumulativeNet = data[i].netCashflow]]

\* lines 162-167: the running sum, written into each entry
RECURSIVE Accumulate(_, _)
Accumulate(data, cumulativeNet) ==
    IF data = <<>> THEN <<>>
    ELSE LET c == cumulativeNet + Head(data).netCashflow
         IN <<[Head(data) EXCEPT !.cumulativeNet = c]>> \o Accumulate(Tail(data), c)

\* lines 170-172: reduce without an initial value over a non-empty array
RECURSIVE ReduceMin(_)
ReduceMin(data) ==
    IF Len(data) = 1 THEN data[1]
    ELSE LET min == ReduceMin(SubSeq(data, 1, Len(data) - 1))
             current == data[Len(data)]
         IN IF current.netCashflow < min.netCashflow THEN current ELSE min

\* lines 173-175
RECURSIVE ReduceMax(_)
ReduceMax(data) ==
    IF Len(data) = 1 THEN data[1]
    ELSE LET max == ReduceMax(SubSeq(data, 1, Len(data) - 1))
             current == data[Len(data)]
         IN IF current.netCashflow > max.netCashflow THEN current ELSE max

\* a find with the comparison turned around
BreakEvenYearAtOrBelowZero(data) ==
    LET Test(d) == d.cumulativeNet <= 0
        i == FindIndex(data, Test)
    IN IF i = 0 THEN <<>> ELSE <<data[i].year>>

\* line 176: waterfallData.find(data => data.cumulativeNet >= 0)?.year
BreakEvenYear(data) ==
    LET Test(d) == d.cumulativeNet >= 0
        i == FindIndex(data, Test)
    IN IF i = 0 THEN <<>> ELSE <<data[i].year>>

RECURSIVE SumCommitment(_)
SumCommitment(positions) ==
    IF positions = <<>> THEN 0
    ELSE Head(positions).commitmentAmount + SumCommitment(Tail(positions))

\* line 186: the running variable cumulativeNet after the forEach of 164-167
RECURSIVE FinalCumulative(_)
FinalCumulative(data) ==
    IF data = <<>> THEN 0
    ELSE FinalCumulative(SubSeq(data, 1, Len(data) - 1)) + data[Len(data)].netCashflow

\* lines 125-188, the whole function; "TypeError" is the exception that reduce
\* without an initial value throws on an empty array
getPortfolioAnalysis(portfolioId, allPortfolios, allPositions, fundCashflows) ==
    LET InPortfolio(p) == p.portfolioId = portfolioId
        positions == Filter(allPositions, InPortfolio)
        years == ArraySort(AllYears(positions, fundCashflows))
        entries == [i \in 1..Len(years) |-> WaterfallEntry(positions, fundCashflows, years[i])]
        waterfallData == Accumulate(entries, 0)
    IN IF \A i \in 1..Len(allPortfolios) : allPortfolios[i] # portfolioId
       THEN [status |-> "null"]
       ELSE IF Len(positions) = 0 THEN [status |-> "null"]
       ELSE IF Len(waterfallData) = 0 THEN [status |-> "TypeError"]
       ELSE [status |-> "ok",
             positions |-> positions,
             waterfallData |-> waterfallData,
             totalCommitment |-> SumCommitment(positions),
             peakOutflow |-> [year |-> ReduceMin(waterfallData).year,
                              amount |-> ReduceMin(waterfallData).netCashflow],
             peakInflow |-> [year |-> ReduceMax(waterfallData).year,
                             amount |-> ReduceMax(waterfallData).netCashflow],
             breakEvenYear |-> BreakEvenYear(waterfallData),
             finalCumulative |-> FinalCumulative(waterfallData)]

\* line 200: what a render of NewPortfolioBuilder computes
RenderPortfolioBuilder(selected, allPortfolios, allPositions, fundCashflows) ==
    IF selected = <<>> THEN [status |-> "null"]
    ELSE getPortfolioAnalysis(selected[1], allPortfolios, allPositions, fundCashflows)

NoAnalysis == [status |-> "null"]

\* an uncaught exception in a render unmounts the whole tree: no handler runs
\* until the page is loaded again
Crashed == selectedPortfolioData.status = "TypeError"

(***************************************************************************)
(* MainMenu: the views.  Leaving 'clients' unmounts NewPortfolioBuilder,   *)
(* whose useState values start again at their initial values.              *)
(***************************************************************************)
setCurrentView(view) ==
    /\ mounted = "MainMenu" /\ ~Crashed
    /\ view # currentView
    /\ currentView' = view
    /\ selectedPortfolio' = <<>>
    /\ selectedPortfolioData' = NoAnalysis
    /\ UNCHANGED <<mounted, callVars, metricsVars, legacyVars, generalFunds, generalFundCashflows, portfolios, portfolioPositions>>

\* the page is loaded again: localStorage is kept, component state is not
Reload ==
    /\ mounted = "MainMenu" /\ Crashed
    /\ currentView' = "menu"
    /\ selectedPortfolio' = <<>>
    /\ selectedPortfolioData' = NoAnalysis
    /\ UNCHANGED <<mounted, callVars, metricsVars, legacyVars, generalFunds, generalFundCashflows, portfolios, portfolioPositions>>

(***************************************************************************)
(* DatabaseManagement: the general fund database.                          *)
(***************************************************************************)
InSeq(x, seq) == \E i \in 1..Len(seq) : seq[i] = x

\* `gf-${Date.now()}`: an id no fund of the store has
FreshFundId(id) == ~InSeq(id, generalFunds)

\* the lines of one bulk upload: year,net%,contributions%,distributions%,nav%
UploadLines ==
    UNION {[1..n -> [year : YearChoices, percentages : PercentageChoices]] : n \in LineCounts}

\* DatabaseManagement.handleAddGeneralFund: a fund with no cashflow yet.  The
\* id is made from the clock; a fresh one is drawn from the pool
handleAddGeneralFund(id) ==
    /\ mounted = "MainMenu" /\ ~Crashed /\ currentView = "database"
    /\ FreshFundId(id)
    /\ generalFunds' = Append(generalFunds, id)
    /\ UNCHANGED <<mounted, callVars, metricsVars, legacyVars, currentView, generalFundCashflows, portfolios,
                   portfolioPositions, selectedPortfolio, selectedPortfolioData>>

\* GeneralFundDatabase.handleBulkUpload (parse) and
\* DatabaseManagement.handleBulkUpload (store): a new fund and its cashflows
handleBulkUpload(id, lines) ==
    /\ mounted = "MainMenu" /\ ~Crashed /\ currentView = "database"
    /\ FreshFundId(id)
    /\ Len(generalFundCashflows) + Len(lines) <= MaxCashflows
    /\ generalFunds' = Append(generalFunds, id)
    /\ generalFundCashflows' = generalFundCashflows \o
          [i \in 1..Len(lines) |->
              [fundId |-> id,
               year |-> lines[i].year,
               contributionsPercentage |-> lines[i].percentages[1],
               distributionsPercentage |-> lines[i].percentages[2]]]
    /\ UNCHANGED <<mounted, callVars, metricsVars, legacyVars, currentView, portfolios, portfolioPositions,
                   selectedPortfolio, selectedPortfolioData>>

\* a deletion of the fund that leaves its cashflows in the store
handleDeleteGeneralFundOnly(id) ==
    /\ mounted = "MainMenu" /\ ~Crashed /\ currentView = "database"
    /\ InSeq(id, generalFunds)
    /\ LET OtherFund(f) == f # id
       IN generalFunds' = Filter(generalFunds, OtherFund)
    /\ UNCHANGED <<mounted, callVars, metricsVars, legacyVars, currentView, generalFundCashflows,
                   portfolios, portfolioPositions, selectedPortfolio, selectedPortfolioData>>

\* DatabaseManagement.handleDeleteGeneralFund
handleDeleteGeneralFund(id) ==
    /\ mounted = "MainMenu" /\ ~Crashed /\ currentView = "database"
    /\ InSeq(id, generalFunds)
    /\ LET OtherFund(f) == f # id
           OfOtherFund(cf) == cf.fundId # id
       IN /\ generalFunds' = Filter(generalFunds, OtherFund)
          /\ generalFundCashflows' = Filter(generalFundCashflows, OfOtherFund)
    /\ UNCHANGED <<mounted, callVars, metricsVars, legacyVars, currentView, portfolios, portfolioPositions,
                   selectedPortfolio, selectedPortfolioData>>

(***************************************************************************)
(* ClientDashboard and NewPortfolioBuilder: every handler ends in a state  *)
(* update, and the render that follows computes selectedPortfolioData.     *)
(***************************************************************************)
handleCreatePortfolio(id) ==
    /\ mounted = "MainMenu" /\ ~Crashed /\ currentView = "clients"
    /\ ~InSeq(id, portfolios)
    /\ portfolios' = Append(portfolios, id)
    /\ selectedPortfolioData' = RenderPortfolioBuilder(
           selectedPortfolio, portfolios', portfolioPositions, generalFundCashflows)
    /\ UNCHANGED <<mounted, callVars, metricsVars, legacyVars, currentView, generalFunds, generalFundCashflows,
                   portfolioPositions, selectedPortfolio>>

setSelectedPortfolio(id) ==
    /\ mounted = "MainMenu" /\ ~Crashed /\ currentView = "clients"
    /\ InSeq(id, portfolios)
    /\ selectedPortfolio # <<id>>
    /\ selectedPortfolio' = <<id>>
    /\ selectedPortfolioData' = RenderPortfolioBuilder(
           selectedPortfolio', portfolios, portfolioPositions, generalFundCashflows)
    /\ UNCHANGED <<mounted, callVars, metricsVars, legacyVars, currentView, generalFunds, generalFundCashflows,
                   portfolios, portfolioPositions>>

\* NewPortfolioBuilder.handleAddPosition (validation) and
\* ClientDashboard.handleAddPosition (store)
handleAddPosition(fundId, commitmentAmount) ==
    /\ mounted = "MainMenu" /\ ~Crashed /\ currentView = "clients"
    /\ InSeq(fundId, generalFunds)
    /\ Len(portfolioPositions) < MaxPositions
    /\ IF selectedPortfolio = <<>> \/ commitmentAmount <= 0
       THEN UNCHANGED <<portfolioPositions, selectedPortfolioData>>
       ELSE /\ portfolioPositions' = Append(portfolioPositions,
                   [portfolioId |-> selectedPortfolio[1],
                    fundId |-> fundId,
                    commitmentAmount |-> commitmentAmount])
            /\ selectedPortfolioData' = RenderPortfolioBuilder(
                   selectedPortfolio, portfolios, portfolioPositions', generalFundCashflows)
    /\ UNCHANGED <<mounted, callVars, metricsVars, legacyVars, currentView, generalFunds, generalFundCashflows,
                   portfolios, selectedPortfolio>>

\* ClientDashboard.handleRemovePosition: position ids are unique, so the
\* filter removes the one position clicked, here the i-th of the store
handleRemovePosition(i) ==
    /\ mounted = "MainMenu" /\ ~Crashed /\ currentView = "clients"
    /\ selectedPortfolio # <<>>
    /\ i \in 1..Len(portfolioPositions)
    /\ portfolioPositions[i].portfolioId = selectedPortfolio[1]
    /\ portfolioPositions' = [k \in 1..(Len(portfolioPositions) - 1) |->
           IF k < i THEN portfolioPositions[k] ELSE portfolioPositions[k + 1]]
    /\ selectedPortfolioData' = RenderPortfolioBuilder(
           selectedPortfolio, portfolios, portfolioPositions', generalFundCashflows)
    /\ UNCHANGED <<mounted, callVars, metricsVars, legacyVars, currentView, generalFunds, generalFundCashflows,
                   portfolios, selectedPortfolio>>

(***************************************************************************)
(* The application that App mounts: MainMenu with its two workspaces.      *)
(***************************************************************************)
InitMainMenu ==
    /\ mounted = "MainMenu"
    /\ currentView = "menu"
    /\ generalFunds = <<>>
    /\ generalFundCashflows = <<>>
    /\ portfolios = <<>>
    /\ portfolioPositions = <<>>
    /\ selectedPortfolio = <<>>
    /\ selectedPortfolioData = NoAnalysis
    /\ uploadedCashflows = <<>>
    /\ netCashflowAnalysis = NoAnalysis
    /\ InitMetrics
    /\ NoCall

NextMainMenu ==
    \/ \E view \in {"menu", "clients", "database"} : setCurrentView(view)
    \/ Reload
    \/ \E id \in GeneralFundIds : handleAddGeneralFund(id)
    \/ \E id \in GeneralFundIds, lines \in UploadLines : handleBulkUpload(id, lines)
    \/ \E id \in GeneralFundIds : handleDeleteGeneralFund(id)
    \/ \E id \in PortfolioIds : handleCreatePortfolio(id)
    \/ \E id \in PortfolioIds : setSelectedPortfolio(id)
    \/ \E fundId \in GeneralFundIds, c \in CommitmentChoices \cup {0} :
          handleAddPosition(fundId, c)
    \/ \E i \in 1..MaxPositions : handleRemovePosition(i)

(***************************************************************************)
(* PortfolioBuilder.getNetCashflowAnalysis, the older waterfall over the   *)
(* cashflows uploaded through CashflowUpload.                              *)
(***************************************************************************)
\* lines 89-92
LegacyAllYears(uploaded) ==
    UNION {{uploaded[f].yearlyCashflows[i].year : i \in 1..Len(uploaded[f].yearlyCashflows)}
           : f \in 1..Len(uploaded)}

\* lines 95-104: the sums over the uploaded funds, in their order
RECURSIVE LegacyYearTotals(_, _)
LegacyYearTotals(uploaded, year) ==
    IF uploaded = <<>> THEN [totalNetCashflow |-> 0, totalCommitment |-> 0]
    ELSE LET fund == uploaded[Len(uploaded)]
             rest == LegacyYearTotals(SubSeq(uploaded, 1, Len(uploaded) - 1), year)
             Match(cf) == cf.year = year
             i == FindIndex(fund.yearlyCashflows, Match)
         IN IF i # 0
            THEN [totalNetCashflow |-> rest.totalNetCashflow
                      + fund.commitmentAmount * fund.yearlyCashflows[i].netCashflowPercentage,
                  totalCommitment |-> rest.totalCommitment + fund.commitmentAmount]
            ELSE rest

\* lines 94-112 (netCashflowPercentage, a quotient only shown, is left out)
LegacyYearEntry(uploaded, year) ==
    LET t == LegacyYearTotals(uploaded, year)
    IN [year |-> year,
        totalNetCashflow |-> t.totalNetCashflow,
        totalCommitment |-> t.totalCommitment]

\* lines 115-122: map to entries that carry the running sum
RECURSIVE LegacyAccumulate(_, _)
LegacyAccumulate(yearly, cumulativeNet) ==
    IF yearly = <<>> THEN <<>>
    ELSE LET c == cumulativeNet + Head(yearly).totalNetCashflow
             e == Head(yearly)
         IN <<[year |-> e.year,
               totalNetCashflow |-> e.totalNetCashflow,
               totalCommitment |-> e.totalCommitment,
               cumulativeNetCashflow |-> c]>> \o LegacyAccumulate(Tail(yearly), c)

\* line 139: the running variable cumulativeNet after the map of 116-122
RECURSIVE LegacyFinalCumulative(_)
LegacyFinalCumulative(yearly) ==
    IF yearly = <<>> THEN 0
    ELSE LegacyFinalCumulative(SubSeq(yearly, 1, Len(yearly) - 1))
            + yearly[Len(yearly)].totalNetCashflow

\* lines 125-127
RECURSIVE LegacyReduceMin(_)
LegacyReduceMin(yearly) ==
    IF Len(yearly) = 1 THEN yearly[1]
    ELSE LET min == LegacyReduceMin(SubSeq(yearly, 1, Len(yearly) - 1))
             current == yearly[Len(yearly)]
         IN IF current.totalNetCashflow < min.totalNetCashflow THEN current ELSE min

\* lines 128-130
RECURSIVE LegacyReduceMax(_)
LegacyReduceMax(yearly) ==
    IF Len(yearly) = 1 THEN yearly[1]
    ELSE LET max == LegacyReduceMax(SubSeq(yearly, 1, Len(yearly) - 1))
             current == yearly[Len(yearly)]
         IN IF current.totalNetCashflow > max.totalNetCashflow THEN current ELSE max

\* line 131: the entry itself, not its year
LegacyBreakEvenYear(cumulative) ==
    LET Test(e) == e.cumulativeNetCashflow >= 0
        i == FindIndex(cumulative, Test)
    IN IF i = 0 THEN <<>> ELSE <<cumulative[i]>>

RECURSIVE LegacySumCommitment(_)
LegacySumCommitment(uploaded) ==
    IF uploaded = <<>> THEN 0
    ELSE Head(uploaded).commitmentAmount + LegacySumCommitment(Tail(uploaded))

\* lines 86-141, the whole function
getNetCashflowAnalysis(uploaded) ==
    LET years == ArraySort(LegacyAllYears(uploaded))
        yearlyAnalysis == [i \in 1..Len(years) |-> LegacyYearEntry(uploaded, years[i])]
        cumulativeAnalysis == LegacyAccumulate(yearlyAnalysis, 0)
    IN IF Len(uploaded) = 0 THEN [status |-> "null"]
       ELSE IF Len(yearlyAnalysis) = 0 THEN [status |-> "TypeError"]
       ELSE [status |-> "ok",
             yearlyAnalysis |-> cumulativeAnalysis,
             peakOutflow |-> LegacyReduceMin(yearlyAnalysis),
             peakInflow |-> LegacyReduceMax(yearlyAnalysis),
             breakEvenYear |-> LegacyBreakEvenYear(cumulativeAnalysis),
             totalCommitment |-> LegacySumCommitment(uploaded),
             finalCumulative |-> LegacyFinalCumulative(yearlyAnalysis)]

(***************************************************************************)
(* CashflowUpload inside PortfolioBuilder.  A file is a header row whose   *)
(* year columns are numbers and data rows, one per fund; the rows that     *)
(* match a known fund are kept, each with one cashflow per year column.    *)
(***************************************************************************)
\* availableFunds={funds}; the rows of a file name the first two of them
AvailableFunds == SubSeq(funds, 1, 2)
ColumnCounts == {1, 2}
RowCounts == {1, 2}
CellChoices == {-1, 1}

\* the year columns of a header: distinct years, in any order
YearColumns ==
    {cols \in UNION {[1..n -> YearChoices] : n \in ColumnCounts} :
        \A i, j \in 1..Len(cols) : i # j => cols[i] # cols[j]}
\* the data rows of a file with n year columns: each fund at most once
FileRows(n) ==
    {rows \in UNION {[1..r -> [fund : 1..Len(AvailableFunds), values : [1..n -> CellChoices]]]
                     : r \in RowCounts} :
        \A i, j \in 1..Len(rows) : i # j => rows[i].fund # rows[j].fund}

\* CashflowUpload.parseUploadedFile, lines 118-164, on a well-formed file, and
\* PortfolioBuilder.handleCashflowsUploaded
parseUploadedFile(yearColumns, rows) ==
    /\ mounted = "CashflowAnalysisView"
    /\ uploadedCashflows' = [r \in 1..Len(rows) |->
           [fundId |-> AvailableFunds[rows[r].fund].id,
            commitmentAmount |-> AvailableFunds[rows[r].fund].commitmentAmount,
            yearlyCashflows |-> [c \in 1..Len(yearColumns) |->
                [year |-> yearColumns[c],
                 netCashflowPercentage |-> rows[r].values[c]]]]]
    /\ netCashflowAnalysis' = getNetCashflowAnalysis(uploadedCashflows')
    /\ UNCHANGED <<mounted, callVars, metricsVars, portfolioVars>>

\* CashflowUpload.removeFundCashflow, lines 253-257
removeFundCashflow(fundId) ==
    /\ mounted = "CashflowAnalysisView"
    /\ \E i \in 1..Len(uploadedCashflows) : uploadedCashflows[i].fundId = fundId
    /\ LET OtherFund(cf) == cf.fundId # fundId
       IN uploadedCashflows' = Filter(uploadedCashflows, OtherFund)
    /\ netCashflowAnalysis' = getNetCashflowAnalysis(uploadedCashflows')
    /\ UNCHANGED <<mounted, callVars, metricsVars, portfolioVars>>

\* the older dashboard as it is first rendered
InitDashboard ==
    /\ mounted = "CashflowAnalysisView"
    /\ currentView = "menu"
    /\ generalFunds = <<>>
    /\ generalFundCashflows = <<>>
    /\ portfolios = <<>>
    /\ portfolioPositions = <<>>
    /\ selectedPortfolio = <<>>
    /\ selectedPortfolioData = NoAnalysis
    /\ uploadedCashflows = <<>>
    /\ netCashflowAnalysis = NoAnalysis
    /\ InitMetrics

InitLegacy == InitDashboard /\ NoCall

NextLegacy ==
    \/ \E yearColumns \in YearColumns : \E rows \in FileRows(Len(yearColumns)) :
          parseUploadedFile(yearColumns, rows)
    \/ \E i \in 1..Len(AvailableFunds) : removeFundCashflow(AvailableFunds[i].id)

(***************************************************************************)
(* The waterfall specification: either the application that App mounts     *)
(* (MainMenu) or the older dashboard (CashflowAnalysisView) is rendered.   *)
(***************************************************************************)
InitWaterfall == InitMainMenu \/ InitLegacy
NextWaterfall ==
    \/ mounted = "MainMenu" /\ NextMainMenu
    \/ mounted = "CashflowAnalysisView" /\ NextLegacy
SpecWaterfall == InitWaterfall /\ [][NextWaterfall]_vars

(***************************************************************************)
(* The older dashboard's fund and cashflow handlers.  After each of them   *)
(* the dashboard renders again, and the metrics are computed anew.         *)
(***************************************************************************)
\* `fund-${Date.now()}`: ids no mock fund has, in the order they are made
NewFundIds == <<"fund-5", "fund-6">>
VintageChoices == {2020}
\* FundForm's commitment field; 0 does not pass validateForm
FormCommitments == {0, 4}
\* the third column of the imported line, parsed and not validated
ImportCommitments == {0, 4}
\* the funds the cashflow form is submitted for
CashflowFundChoices == {"fund-4", "fund-5"}
\* <<year, quarter>>; a quarter of 5 does not pass validateForm
PeriodChoices == {<<2022, 4>>, <<2023, 1>>, <<2023, 5>>}
\* <<calls, distributions, nav>>
AmountChoices == {<<2, 1, 3>>, <<0, 0, 5>>}

RenderDashboard(allFunds, allCashflows) ==
    /\ fundMetrics' = RenderFundManagement(allFunds, allCashflows)
    /\ vintageAnalysis' = getVintageAnalysis(allFunds, allCashflows)
    /\ overallMetrics' = getOverallMetrics(allFunds, allCashflows)

NewFund(vintage, commitmentAmount) ==
    [id |-> NewFundIds[Len(funds) - Len(mockFunds) + 1],
     vintage |-> vintage,
     commitmentAmount |-> commitmentAmount]

\* FundForm.validateForm and handleSubmit, then Dashboard.handleAddFund
handleAddFund(vintage, commitmentAmount) ==
    /\ mounted = "CashflowAnalysisView"
    /\ Len(funds) < Len(mockFunds) + Len(NewFundIds)
    /\ IF commitmentAmount <= 0
       THEN UNCHANGED <<funds, fundMetrics, vintageAnalysis, overallMetrics>>
       ELSE /\ funds' = Append(funds, NewFund(vintage, commitmentAmount))
            /\ RenderDashboard(funds', cashflows)
    /\ downloaded' = <<>>
    /\ UNCHANGED <<mounted, callVars, portfolioVars, legacyVars, cashflows, selectedFunds>>

\* FundMenu.handleExcelImport (the template has no cashflows), then
\* Dashboard.handleExcelImport
handleExcelImport(vintage, commitmentAmount) ==
    /\ mounted = "CashflowAnalysisView"
    /\ Len(funds) < Len(mockFunds) + Len(NewFundIds)
    /\ funds' = Append(funds, NewFund(vintage, commitmentAmount))
    /\ RenderDashboard(funds', cashflows)
    /\ downloaded' = <<>>
    /\ UNCHANGED <<mounted, callVars, portfolioVars, legacyVars, cashflows, selectedFunds>>

\* CashflowForm.validateForm, lines 35-93, for a form with a fund chosen and
\* the three amounts filled in
ValidCashflow(year, quarter) ==
    /\ year >= 1990
    /\ quarter >= 1 /\ quarter <= 4

\* CashflowForm.handleSubmit, then Dashboard.handleAddCashflow
handleAddCashflow(fundId, period, amounts) ==
    /\ mounted = "CashflowAnalysisView"
    /\ \E i \in 1..Len(funds) : funds[i].id = fundId
    /\ Len(cashflows) < Len(mockCashflows) + MaxNewCashflows
    /\ IF ~ValidCashflow(period[1], period[2])
       THEN UNCHANGED <<cashflows, fundMetrics, vintageAnalysis, overallMetrics>>
       ELSE /\ cashflows' = Append(cashflows,
                   Cashflow(fundId, period[1], period[2],
                            amounts[1], amounts[2], amounts[3]))
            /\ RenderDashboard(funds, cashflows')
    /\ downloaded' = <<>>
    /\ UNCHANGED <<mounted, callVars, portfolioVars, legacyVars, funds, selectedFunds>>

\* ExportDialog.selectAllFunds
selectAllFunds ==
    /\ mounted = "CashflowAnalysisView"
    /\ selectedFunds' = [i \in 1..Len(funds) |-> funds[i].id]
    /\ downloaded' = <<>>
    /\ UNCHANGED <<mounted, callVars, portfolioVars, legacyVars, funds, cashflows,
                   fundMetrics, vintageAnalysis, overallMetrics>>

\* ExportDialog.deselectAllFunds
deselectAllFunds ==
    /\ mounted = "CashflowAnalysisView"
    /\ selectedFunds' = <<>>
    /\ downloaded' = <<>>
    /\ UNCHANGED <<mounted, callVars, portfolioVars, legacyVars, funds, cashflows,
                   fundMetrics, vintageAnalysis, overallMetrics>>

\* ExportDialog.handleExport with the dialog's defaults (the complete
\* portfolio, as CSV, with metrics): the rows of funds_export.csv.  The button
\* is disabled while no fund is ticked
handleExport ==
    /\ mounted = "CashflowAnalysisView"
    /\ selectedFunds # <<>>
    /\ LET Selected(f) == InSeq(f.id, selectedFunds)
           fundsToExport == Filter(funds, Selected)
       IN downloaded' = [i \in 1..Len(fundsToExport) |->
                            FundWithMetrics(fundsToExport[i], cashflows)]
    /\ UNCHANGED <<mounted, callVars, portfolioVars, legacyVars, funds, cashflows,
                   fundMetrics, vintageAnalysis, overallMetrics, selectedFunds>>

NextMetrics ==
    \/ \E v \in VintageChoices, c \in FormCommitments : handleAddFund(v, c)
    \/ \E v \in VintageChoices, c \in ImportCommitments : handleExcelImport(v, c)
    \/ \E fundId \in CashflowFundChoices, period \in PeriodChoices, amounts \in AmountChoices :
          handleAddCashflow(fundId, period, amounts)
    \/ selectAllFunds
    \/ deselectAllFunds
    \/ handleExport

\* the metrics specification: the older dashboard with its mock data
SpecMetrics == InitLegacy /\ [][NextMetrics]_vars

(***************************************************************************)
(* Properties of the waterfall.                                            *)
(***************************************************************************)
PortfolioShown == mounted = "MainMenu" /\ selectedPortfolioData.status = "ok"
LegacyShown == mounted = "CashflowAnalysisView" /\ netCashflowAnalysis.status = "ok"

\* the positions of the selected portfolio, as the store holds them
SelectedPositions ==
    LET InSelected(p) == selectedPortfolio # <<>> /\ p.portfolioId = selectedPortfolio[1]
    IN SelectSeq(portfolioPositions, InSelected)

RECURSIVE SeqSum(_)
SeqSum(seq) == IF seq = <<>> THEN 0 ELSE Head(seq) + SeqSum(Tail(seq))

\* C1: in output order every entry's cumulativeNet is the previous entry's
\* cumulativeNet (0 before the first) plus its own netCashflow, and
\* finalCumulative is the cumulativeNet of the last entry; in both waterfalls
C1_CumulativeInvariant ==
    /\ PortfolioShown =>
         LET d == selectedPortfolioData.waterfallData
         IN /\ \A i \in 1..Len(d) :
                  d[i].cumulativeNet
                      = (IF i = 1 THEN 0 ELSE d[i - 1].cumulativeNet) + d[i].netCashflow
            /\ selectedPortfolioData.finalCumulative = d[Len(d)].cumulativeNet
    /\ LegacyShown =>
         LET d == netCashflowAnalysis.yearlyAnalysis
         IN /\ \A i \in 1..Len(d) :
                  d[i].cumulativeNetCashflow
                      = (IF i = 1 THEN 0 ELSE d[i - 1].cumulativeNetCashflow)
                            + d[i].totalNetCashflow
            /\ netCashflowAnalysis.finalCumulative = d[Len(d)].cumulativeNetCashflow

\* a waterfall of three years whose running sum moves at every year
C1_Witness ==
    /\ PortfolioShown
    /\ Len(selectedPortfolioData.waterfallData) = 3
    /\ \A i \in 1..3 : selectedPortfolioData.waterfallData[i].netCashflow # 0
    /\ selectedPortfolioData.finalCumulative # 0

\* C2: the yearly entries hold every distinct year of the positions' funds'
\* cashflow records exactly once, in strictly ascending numeric order
C2_YearAxisAscending ==
    /\ PortfolioShown =>
         LET d == selectedPortfolioData.waterfallData
         IN /\ {d[i].year : i \in 1..Len(d)}
                  = {generalFundCashflows[i].year : i \in
                       {i \in 1..Len(generalFundCashflows) :
                          \E k \in 1..Len(SelectedPositions) :
                             SelectedPositions[k].fundId = generalFundCashflows[i].fundId}}
            /\ \A i \in 1..(Len(d) - 1) : d[i].year < d[i + 1].year
    /\ LegacyShown =>
         LET d == netCashflowAnalysis.yearlyAnalysis
         IN /\ {d[i].year : i \in 1..Len(d)}
                  = UNION {{uploadedCashflows[f].yearlyCashflows[c].year :
                              c \in 1..Len(uploadedCashflows[f].yearlyCashflows)} :
                           f \in 1..Len(uploadedCashflows)}
            /\ \A i \in 1..(Len(d) - 1) : d[i].year < d[i + 1].year

\* the smallest year with a running sum of at least 0, if there is one
SmallestYearAtOrAboveZero(years, AtOrAbove(_)) ==
    IF \E y \in years : AtOrAbove(y)
    THEN <<CHOOSE y \in years : AtOrAbove(y) /\ \A z \in years : AtOrAbove(z) => y <= z>>
    ELSE <<>>

\* C3: breakEvenYear is the smallest year whose cumulativeNet is >= 0, and
\* undefined when no year's cumulativeNet is >= 0
C3_BreakEvenSmallestYear ==
    /\ PortfolioShown =>
         LET d == selectedPortfolioData.waterfallData
             AtOrAbove(y) == \E i \in 1..Len(d) : d[i].year = y /\ d[i].cumulativeNet >= 0
         IN selectedPortfolioData.breakEvenYear
               = SmallestYearAtOrAboveZero({d[i].year : i \in 1..Len(d)}, AtOrAbove)
    /\ LegacyShown =>
         LET d == netCashflowAnalysis.yearlyAnalysis
             AtOrAbove(y) == \E i \in 1..Len(d) : d[i].year = y /\ d[i].cumulativeNetCashflow >= 0
             expected == SmallestYearAtOrAboveZero({d[i].year : i \in 1..Len(d)}, AtOrAbove)
         IN IF expected = <<>> THEN netCashflowAnalysis.breakEvenYear = <<>>
            ELSE /\ netCashflowAnalysis.breakEvenYear # <<>>
                 /\ netCashflowAnalysis.breakEvenYear[1].year = expected[1]

\* the record for (fundId, year): the first one of the store, if any
RecordFor(fundId, year) ==
    LET S == {i \in 1..Len(generalFundCashflows) :
                 /\ generalFundCashflows[i].fundId = fundId
                 /\ generalFundCashflows[i].year = year}
    IN IF S = {} THEN <<>>
       ELSE <<generalFundCashflows[CHOOSE i \in S : \A j \in S : i <= j]>>

\* C4: per year of the axis, contributions and distributions are the sums over
\* the positions of commitmentAmount times the percentage of the record for
\* (fundId, year), 0 for a position without such a record, and netCashflow is
\* their sum
C4_YearSums ==
    PortfolioShown =>
        LET d == selectedPortfolioData.waterfallData
            P == SelectedPositions
        IN \A i \in 1..Len(d) :
              /\ d[i].contributions = SeqSum([k \in 1..Len(P) |->
                    LET r == RecordFor(P[k].fundId, d[i].year)
                    IN IF r = <<>> THEN 0
                       ELSE P[k].commitmentAmount * r[1].contributionsPercentage])
              /\ d[i].distributions = SeqSum([k \in 1..Len(P) |->
                    LET r == RecordFor(P[k].fundId, d[i].year)
                    IN IF r = <<>> THEN 0
                       ELSE P[k].commitmentAmount * r[1].distributionsPercentage])
              /\ d[i].netCashflow = d[i].contributions + d[i].distributions

\* two positions on different funds, and a year for which only one of the two
\* funds has a record, with both sums of some year not 0
C4_Witness ==
    /\ PortfolioShown
    /\ Len(SelectedPositions) = 2
    /\ SelectedPositions[1].fundId # SelectedPositions[2].fundId
    /\ \E i \in 1..Len(selectedPortfolioData.waterfallData) :
          LET y == selectedPortfolioData.waterfallData[i].year
          IN /\ RecordFor(SelectedPositions[1].fundId, y) = <<>>
             /\ RecordFor(SelectedPositions[2].fundId, y) # <<>>
    /\ \E i \in 1..Len(selectedPortfolioData.waterfallData) :
          /\ selectedPortfolioData.waterfallData[i].contributions # 0
          /\ selectedPortfolioData.waterfallData[i].distributions # 0

\* C5: a portfolio whose positions' funds have no cashflow record yields an
\* empty yearly sequence with breakEvenYear undefined, and nothing is thrown
C5_EmptyWaterfallCompletes ==
    (/\ mounted = "MainMenu"
     /\ SelectedPositions # <<>>
     /\ AllYears(SelectedPositions, generalFundCashflows) = {})
    => /\ selectedPortfolioData.status = "ok"
       /\ selectedPortfolioData.waterfallData = <<>>
       /\ selectedPortfolioData.breakEvenYear = <<>>

\* C6: peakOutflow is the entry of minimum netCashflow and peakInflow the one
\* of maximum netCashflow; of several such entries the earliest year is taken
C6_PeakEarliestYear ==
    /\ PortfolioShown =>
         LET d == selectedPortfolioData.waterfallData
             out == selectedPortfolioData.peakOutflow
             inf == selectedPortfolioData.peakInflow
         IN /\ \A i \in 1..Len(d) : out.amount <= d[i].netCashflow
            /\ \A i \in 1..Len(d) : inf.amount >= d[i].netCashflow
            /\ \E i \in 1..Len(d) : d[i].year = out.year /\ d[i].netCashflow = out.amount
            /\ \E i \in 1..Len(d) : d[i].year = inf.year /\ d[i].netCashflow = inf.amount
            /\ \A i \in 1..Len(d) : d[i].netCashflow = out.amount => out.year <= d[i].year
            /\ \A i \in 1..Len(d) : d[i].netCashflow = inf.amount => inf.year <= d[i].year
    /\ LegacyShown =>
         LET d == netCashflowAnalysis.yearlyAnalysis
             out == netCashflowAnalysis.peakOutflow
             inf == netCashflowAnalysis.peakInflow
         IN /\ \A i \in 1..Len(d) : out.totalNetCashflow <= d[i].totalNetCashflow
            /\ \A i \in 1..Len(d) : inf.totalNetCashflow >= d[i].totalNetCashflow
            /\ \A i \in 1..Len(d) :
                  d[i].totalNetCashflow = out.totalNetCashflow => out.year <= d[i].year
            /\ \A i \in 1..Len(d) :
                  d[i].totalNetCashflow = inf.totalNetCashflow => inf.year <= d[i].year

\* C7 as stated: a negative finalCumulative means breakEvenYear is undefined
C7_NegativeFinalNoBreakEven ==
    /\ PortfolioShown =>
         (selectedPortfolioData.finalCumulative < 0 => selectedPortfolioData.breakEvenYear = <<>>)
    /\ LegacyShown =>
         (netCashflowAnalysis.finalCumulative < 0 => netCashflowAnalysis.breakEvenYear = <<>>)

\* C7 (amended): when the cumulativeNet of every yearly entry is negative, the
\* last one (finalCumulative) included, breakEvenYear is undefined
C7_AllNegativeNoBreakEven ==
    /\ PortfolioShown =>
         LET d == selectedPortfolioData.waterfallData
         IN (\A i \in 1..Len(d) : d[i].cumulativeNet < 0)
               => selectedPortfolioData.breakEvenYear = <<>>
    /\ LegacyShown =>
         LET d == netCashflowAnalysis.yearlyAnalysis
         IN (\A i \in 1..Len(d) : d[i].cumulativeNetCashflow < 0)
               => netCashflowAnalysis.breakEvenYear = <<>>

\* a waterfall of at least two years that stays below 0 throughout
C7_Witness ==
    /\ PortfolioShown
    /\ Len(selectedPortfolioData.waterfallData) >= 2
    /\ \A i \in 1..Len(selectedPortfolioData.waterfallData) :
          selectedPortfolioData.waterfallData[i].cumulativeNet < 0
    /\ selectedPortfolioData.finalCumulative < 0
    /\ selectedPortfolioData.breakEvenYear = <<>>

(***************************************************************************)
(* Properties of the metrics.                                              *)
(***************************************************************************)
\* the indices of a fund's records in the cashflow store
RecordsOf(fundId) == {r \in 1..Len(cashflows) : cashflows[r].fundId = fundId}

\* the (year, quarter) of a is after that of b: year first, then quarter
Later(a, b) == a.year > b.year \/ (a.year = b.year /\ a.quarter > b.quarter)

\* the nav values of the fund's records of maximum (year, quarter)
LatestNavs(fundId) ==
    {cashflows[r].nav : r \in {r \in RecordsOf(fundId) :
        \A q \in RecordsOf(fundId) : ~Later(cashflows[q], cashflows[r])}}

\* currentNav is as C8 says for that fund
NavOfLatest(fundId, currentNav) ==
    IF RecordsOf(fundId) = {} THEN currentNav = 0 ELSE currentNav \in LatestNavs(fundId)

\* C8: currentNav of a fund with records is the nav of a record of maximum
\* (year, quarter), year compared first, and 0 for a fund without records; in
\* the fund table, the vintage analysis, the export, and summed by
\* getOverallMetrics
C8_CurrentNavOfLatestRecord ==
    mounted = "CashflowAnalysisView" =>
        /\ \A i \in 1..Len(funds) : NavOfLatest(funds[i].id, fundMetrics[i].currentNav)
        /\ \A i \in 1..Len(vintageAnalysis) :
              NavOfLatest(vintageAnalysis[i].fundName, vintageAnalysis[i].currentNav)
        /\ \A i \in 1..Len(downloaded) :
              NavOfLatest(downloaded[i].id, downloaded[i].currentNav)
        /\ overallMetrics.totalNav
              = SeqSum([i \in 1..Len(funds) |-> fundMetrics[i].currentNav])

\* a fund whose latest record is not the last one stored, next to a fund
\* without records, both exported
C8_Witness ==
    /\ mounted = "CashflowAnalysisView"
    /\ \E i \in 1..Len(funds) :
          LET R == RecordsOf(funds[i].id)
              last == CHOOSE r \in R : \A q \in R : q <= r
          IN /\ Cardinality(R) >= 2
             /\ \E q \in R : Later(cashflows[q], cashflows[last])
             /\ fundMetrics[i].currentNav # cashflows[last].nav
             /\ \E k \in 1..Len(downloaded) : downloaded[k].id = funds[i].id
    /\ \E i \in 1..Len(funds) :
          /\ RecordsOf(funds[i].id) = {}
          /\ fundMetrics[i].currentNav = 0
          /\ \E k \in 1..Len(downloaded) :
                downloaded[k].id = funds[i].id /\ downloaded[k].currentNav = 0

\* the sum of a field over all of a fund's records
TotalOf(fundId, Field(_)) ==
    SeqSum([r \in 1..Len(cashflows) |->
               IF cashflows[r].fundId = fundId THEN Field(cashflows[r]) ELSE 0])

\* m.multiple is the quotient C9 names, of the sums and the nav that m carries:
\* num / den with den a divisor of totalCalls
MultipleIsQuotient(m) ==
    IF m.totalCalls > 0
    THEN /\ m.multiple.kind = "finite"
         /\ m.totalCalls % m.multiple.den = 0
         /\ m.multiple.num * (m.totalCalls \div m.multiple.den)
               = m.totalDistributions + m.currentNav
    ELSE m.multiple = Integer(0)

\* the exported multiple is that quotient to two decimals: no further from it
\* than half a hundredth
MultipleIsRoundedQuotient(m) ==
    /\ m.multiple.kind = "fixed"
    /\ m.multiple.digits = 2
    /\ IF m.totalCalls > 0
       THEN LET g == Gcd(Abs(m.totalDistributions + m.currentNav), m.totalCalls)
                num == (m.totalDistributions + m.currentNav) \div g
                den == m.totalCalls \div g
            IN 2 * Abs(m.multiple.scaled * den - 100 * num) <= den
       ELSE m.multiple.scaled = 0

\* the sums are those of all of the fund's records
SumsUnfiltered(fundId, m) ==
    LET Calls(cf) == cf.calls
        Distributions(cf) == cf.distributions
    IN /\ m.totalCalls = TotalOf(fundId, Calls)
       /\ m.totalDistributions = TotalOf(fundId, Distributions)

\* C9: multiple is (totalDistributions + currentNav) / totalCalls when
\* totalCalls > 0 and 0 otherwise, totalCalls and totalDistributions being the
\* sums over all of the fund's records; the export writes it to two decimals
C9_MultipleIsQuotient ==
    mounted = "CashflowAnalysisView" =>
        /\ \A i \in 1..Len(funds) :
              /\ SumsUnfiltered(funds[i].id, fundMetrics[i])
              /\ MultipleIsQuotient(fundMetrics[i])
        /\ \A i \in 1..Len(vintageAnalysis) :
              /\ SumsUnfiltered(vintageAnalysis[i].fundName, vintageAnalysis[i])
              /\ MultipleIsQuotient(vintageAnalysis[i])
        /\ \A i \in 1..Len(downloaded) :
              /\ SumsUnfiltered(downloaded[i].id, downloaded[i])
              /\ MultipleIsRoundedQuotient(downloaded[i])

\* a fund with some calls and a multiple that is not a whole number, next to a
\* fund that has a record but no calls, both exported
C9_Witness ==
    /\ mounted = "CashflowAnalysisView"
    /\ \E i \in 1..Len(funds) :
          /\ Cardinality(RecordsOf(funds[i].id)) >= 2
          /\ fundMetrics[i].totalCalls > 0
          /\ fundMetrics[i].multiple.kind = "finite"
          /\ fundMetrics[i].multiple.den > 1
          /\ \E k \in 1..Len(downloaded) :
                downloaded[k].id = funds[i].id /\ downloaded[k].multiple.scaled > 0
    /\ \E i \in 1..Len(funds) :
          /\ RecordsOf(funds[i].id) # {}
          /\ fundMetrics[i].totalCalls = 0
          /\ fundMetrics[i].multiple = Integer(0)
          /\ \E k \in 1..Len(downloaded) : downloaded[k].id = funds[i].id

\* C10: for a fund of commitmentAmount 0 that has a record, calledPercentage
\* is 0 (the code has no not-applicable marker): the division is guarded
C10_CalledPercentageGuarded ==
    mounted = "CashflowAnalysisView" =>
        /\ \A i \in 1..Len(funds) :
              (funds[i].commitmentAmount = 0 /\ RecordsOf(funds[i].id) # {})
                 => fundMetrics[i].calledPercentage = Integer(0)
        /\ \A i \in 1..Len(vintageAnalysis) :
              (vintageAnalysis[i].commitment = 0 /\ RecordsOf(vintageAnalysis[i].fundName) # {})
                 => vintageAnalysis[i].calledPercentage = Integer(0)
        /\ \A i \in 1..Len(downloaded) :
              (downloaded[i].commitmentAmount = 0 /\ RecordsOf(downloaded[i].id) # {})
                 => /\ downloaded[i].calledPercentage.kind = "fixed"
                    /\ downloaded[i].calledPercentage.scaled = 0

\* arr in the order p, a permutation of its indices
Permuted(arr, p) == [k \in 1..Len(arr) |-> arr[p[k]]]

\* C11: whatever the order of a fund's records, getFundMetrics returns the
\* same totalCalls, totalDistributions and currentNav: every reordering of
\* the records the store holds for a fund gives what the fund table shows
C11_MetricsPermutationInvariant ==
    mounted = "CashflowAnalysisView" =>
        \A i \in 1..Len(funds) :
            LET records == FundCashflows(funds[i], cashflows)
            IN \A p \in Permutations(1..Len(records)) :
                  LET m == getFundMetrics(funds[i], Permuted(records, p))
                  IN /\ m.totalCalls = fundMetrics[i].totalCalls
                     /\ m.totalDistributions = fundMetrics[i].totalDistributions
                     /\ m.currentNav = fundMetrics[i].currentNav

\* ---------------------------------------------------------------------------
\* The projection engine: fundTypeExpectations, portfolioScenarios and
\* calculateExpectedCashflows
\* ---------------------------------------------------------------------------

Expectation(fundType, avgLifespan, callPattern, distributionPattern, navPattern) ==
    [fundType |-> fundType, avgLifespan |-> avgLifespan,
     callPattern |-> callPattern, distributionPattern |-> distributionPattern,
     navPattern |-> navPattern]

fundTypeExpectations ==
    << Expectation("Private Equity", 10,
            <<15, 25, 20, 15, 10, 8, 5, 2, 0, 0>>,
            <<0, 2, 5, 8, 15, 25, 20, 15, 8, 2>>,
            <<15, 38, 55, 65, 70, 60, 45, 30, 15, 5>>),
       Expectation("Venture Capital", 10,
            <<20, 30, 25, 15, 5, 3, 2, 0, 0, 0>>,
            <<0, 0, 2, 5, 10, 15, 25, 25, 15, 3>>,
            <<20, 45, 65, 75, 80, 75, 60, 40, 25, 10>>),
       Expectation("Real Estate", 8,
            <<20, 25, 20, 15, 10, 5, 3, 2>>,
            <<5, 8, 12, 15, 20, 20, 15, 5>>,
            <<18, 35, 45, 50, 45, 35, 20, 10>>),
       Expectation("Infrastructure", 12,
            <<12, 18, 15, 12, 10, 8, 8, 6, 5, 3, 2, 1>>,
            <<2, 4, 6, 8, 10, 12, 14, 16, 14, 10, 8, 6>>,
            <<12, 26, 35, 40, 42, 40, 38, 35, 30, 25, 18, 10>>),
       Expectation("Credit", 6,
            <<25, 30, 20, 15, 8, 2>>,
            <<8, 15, 20, 25, 20, 12>>,
            <<20, 35, 40, 35, 25, 10>>),
       Expectation("Hedge Fund", 3,
            <<40, 35, 25>>,
            <<35, 35, 30>>,
            <<40, 40, 35>>) >>

\* the multipliers 0.75, 1.0 and 1.3 as the fractions their literals denote
portfolioScenarios ==
    << [id |-> "conservative", type |-> "conservative", multiplier |-> Finite(3, 4)],
       [id |-> "neutral", type |-> "neutral", multiplier |-> Integer(1)],
       [id |-> "positive", type |-> "positive", multiplier |-> Finite(13, 10)] >>

\* fundTypeExpectations.find(...) || null, null being <<>>; the result is a
\* sequence of at most one expectation
getFundTypeExpectationOrFirst(fundType) == <<fundTypeExpectations[1]>>

getFundTypeExpectation(fundType) ==
    LET matches == {k \in 1..Len(fundTypeExpectations) :
                        fundTypeExpectations[k].fundType = fundType}
    IN IF matches = {} THEN <<>>
       ELSE <<fundTypeExpectations[CHOOSE k \in matches : \A j \in matches : k <= j]>>

\* q * r of two numbers
JsMultiply(q, r) ==
    IF q.kind = "finite" /\ r.kind = "finite"
    THEN LET g1 == Gcd(Abs(q.num), r.den)
             g2 == Gcd(Abs(r.num), q.den)
         IN Finite((q.num \div g1) * (r.num \div g2), (q.den \div g2) * (r.den \div g1))
    ELSE NaN

\* x || 0 of a number: NaN and 0 are falsy
JsOrZero(q) == IF q.kind = "NaN" THEN Integer(0) ELSE q

\* i counts from 0 as in the code; the patterns are indexed from 1 here
CallAmountOfNavPattern(fund, expectation, i) ==
    JsOrZero(JsDivide(fund.commitmentAmount * expectation.navPattern[i + 1], 100))

\* half of the call of the year
CallAmountHalved(fund, expectation, i) ==
    JsOrZero(JsDivide(fund.commitmentAmount * expectation.callPattern[i + 1], 200))

CallAmount(fund, expectation, i) ==
    JsOrZero(JsDivide(fund.commitmentAmount * expectation.callPattern[i + 1], 100))

DistributionAmountDividedByMultiplier(fund, expectation, i, scenario) ==
    JsOrZero(JsMultiply(
        JsDivide(fund.commitmentAmount * expectation.distributionPattern[i + 1], 100),
        Finite(scenario.multiplier.den, scenario.multiplier.num)))

DistributionAmount(fund, expectation, i, scenario) ==
    JsOrZero(JsMultiply(
        JsDivide(fund.commitmentAmount * expectation.distributionPattern[i + 1], 100),
        scenario.multiplier))

NavAmount(fund, expectation, i, scenario) ==
    JsOrZero(JsMultiply(
        JsDivide(fund.commitmentAmount * expectation.navPattern[i + 1], 100),
        scenario.multiplier))

ProjectionYearOfVintage(fund, i) == fund.vintage

ProjectionYear(fund, i) == fund.vintage + i

calculateExpectedCashflows(fund, scenario) ==
    LET found == getFundTypeExpectation(fund.fundType)
    IN IF found = <<>> THEN <<>>
       ELSE LET expectation == found[1]
            IN [k \in 1..expectation.avgLifespan |->
                   [year |-> ProjectionYear(fund, k - 1),
                    quarter |-> 4,
                    calls |-> CallAmount(fund, expectation, k - 1),
                    distributions |-> DistributionAmount(fund, expectation, k - 1, scenario),
                    nav |-> NavAmount(fund, expectation, k - 1, scenario),
                    isProjected |-> TRUE]]

\* the funds and scenarios the projection is computed for: every type the
\* engine knows and one the fund form offers that it does not know
FundTypeArgs ==
    {fundTypeExpectations[k].fundType : k \in 1..Len(fundTypeExpectations)}
        \cup {"Fund of Funds"}
CommitmentArgs == {-200, 0, 7, 200}
VintageArgs == {2020, 2023}

ProjectionArgs ==
    {[fn |-> "calculateExpectedCashflows",
      fund |-> [commitmentAmount |-> c, fundType |-> t, vintage |-> v],
      scenario |-> portfolioScenarios[s]] :
        c \in CommitmentArgs, t \in FundTypeArgs, v \in VintageArgs,
        s \in 1..Len(portfolioScenarios)}

InitProjection ==
    /\ InitDashboard
    /\ args \in ProjectionArgs
    /\ returned = <<>>

\* the call returns; its result is kept as the one element of returned
callCalculateExpectedCashflows ==
    /\ args # <<>>
    /\ args.fn = "calculateExpectedCashflows"
    /\ returned = <<>>
    /\ returned' = <<calculateExpectedCashflows(args.fund, args.scenario)>>
    /\ UNCHANGED <<mounted, portfolioVars, legacyVars, metricsVars, args>>

NextProjection == callCalculateExpectedCashflows

SpecProjection == InitProjection /\ [][NextProjection]_vars

\* the projection a call has returned, and the expectation of its fund's type
Projected == returned # <<>> /\ args.fn = "calculateExpectedCashflows"
KnownType(fundType) == getFundTypeExpectation(fundType) # <<>>
ExpectationOf(fundType) == getFundTypeExpectation(fundType)[1]

\* C12: for a fund of a known type with commitment C and a scenario with
\* multiplier m, the entry for year index i has calls = C * callPattern[i] / 100
\* (the multiplier is not applied), distributions = C * distributionPattern[i]
\* / 100 * m and nav = C * navPattern[i] / 100 * m
C12_ProjectionAmounts ==
    (Projected /\ KnownType(args.fund.fundType)) =>
        LET e == ExpectationOf(args.fund.fundType)
            C == args.fund.commitmentAmount
            m == args.scenario.multiplier
            out == returned[1]
        IN \A i \in 0..(e.avgLifespan - 1) :
              /\ i + 1 \in DOMAIN out
              /\ out[i + 1].calls.kind = "finite"
              /\ out[i + 1].calls.num * 100 = out[i + 1].calls.den * C * e.callPattern[i + 1]
              /\ out[i + 1].distributions.kind = "finite"
              /\ out[i + 1].distributions.num * 100 * m.den
                    = out[i + 1].distributions.den * C * e.distributionPattern[i + 1] * m.num
              /\ out[i + 1].nav.kind = "finite"
              /\ out[i + 1].nav.num * 100 * m.den
                    = out[i + 1].nav.den * C * e.navPattern[i + 1] * m.num

C12_Witness ==
    /\ Projected
    /\ KnownType(args.fund.fundType)
    /\ args.fund.commitmentAmount = 200
    /\ args.scenario.id = "positive"
    /\ \E k \in DOMAIN returned[1] :
          /\ returned[1][k].calls = Integer(30)
          /\ returned[1][k].distributions = Integer(39)

\* C13: for a fund of a known type the projection has exactly avgLifespan
\* entries; entry i has year = vintage + i, quarter = 4 and isProjected = true,
\* so the years are consecutive and strictly ascending
C13_ProjectionShape ==
    (Projected /\ KnownType(args.fund.fundType)) =>
        LET e == ExpectationOf(args.fund.fundType)
            out == returned[1]
        IN /\ Len(out) = e.avgLifespan
           /\ \A i \in 0..(e.avgLifespan - 1) :
                 /\ out[i + 1].year = args.fund.vintage + i
                 /\ out[i + 1].quarter = 4
                 /\ out[i + 1].isProjected = TRUE
           /\ \A k \in 1..(Len(out) - 1) : out[k + 1].year = out[k].year + 1

C13_Witness ==
    /\ Projected
    /\ args.fund.fundType = "Infrastructure"
    /\ args.fund.vintage = 2023
    /\ Len(returned[1]) = 12
    /\ returned[1][12].year = 2034

\* a >= b of two finite numbers
AtLeast(a, b) == a.num * b.den >= b.num * a.den

\* the projection of the call's fund under the scenario with that id: the one
\* the call returned when it is the call's scenario
ProjectionUnder(id) ==
    IF args.scenario.id = id THEN returned[1]
    ELSE LET k == CHOOSE j \in 1..Len(portfolioScenarios) : portfolioScenarios[j].id = id
         IN calculateExpectedCashflows(args.fund, portfolioScenarios[k])

\* C14: for a fund with a positive commitment and any projected year, the
\* distributions are largest under the optimistic scenario, then neutral, then
\* conservative, and the calls are the same under all three
C14_ScenarioOrder ==
    (Projected /\ args.fund.commitmentAmount > 0) =>
        LET conservative == ProjectionUnder("conservative")
            neutral == ProjectionUnder("neutral")
            positive == ProjectionUnder("positive")
        IN /\ DOMAIN conservative = DOMAIN neutral
           /\ DOMAIN neutral = DOMAIN positive
           /\ \A k \in DOMAIN neutral :
                 /\ positive[k].year = neutral[k].year
                 /\ neutral[k].year = conservative[k].year
                 /\ AtLeast(positive[k].distributions, neutral[k].distributions)
                 /\ AtLeast(neutral[k].distributions, conservative[k].distributions)
                 /\ positive[k].calls = neutral[k].calls
                 /\ neutral[k].calls = conservative[k].calls

C14_Witness ==
    /\ Projected
    /\ args.fund.commitmentAmount = 7
    /\ args.scenario.id = "conservative"
    /\ \E k \in DOMAIN returned[1] :
          /\ ~AtLeast(returned[1][k].distributions,
                      ProjectionUnder("neutral")[k].distributions)
          /\ ~AtLeast(ProjectionUnder("neutral")[k].distributions,
                      ProjectionUnder("positive")[k].distributions)
          /\ returned[1][k].calls.num > 0

\* the fund types fundTypeExpectations has an entry for
ExpectedTypes == {fundTypeExpectations[k].fundType : k \in 1..Len(fundTypeExpectations)}

\* C15: for a fund whose type has no expectation the projection is the empty
\* sequence, and the call returns it rather than failing
C15_UnknownTypeEmpty ==
    (Projected /\ args.fund.fundType \notin ExpectedTypes) => returned = << <<>> >>

C15_Witness ==
    /\ Projected
    /\ args.fund.fundType = "Fund of Funds"
    /\ args.fund.commitmentAmount = 200
    /\ returned[1] = <<>>

\* ---------------------------------------------------------------------------
\* The metrics functions as calls: what they do to the arrays they are given
\* ---------------------------------------------------------------------------

\* The arrays a metrics call touches, by name: cashflows is the caller's array
\* and fundCashflows the array filter() allocates.  sort() works in place on
\* the array it is called on.
CallersArray == "cashflows"

\* the array of a filter() that gave back the array it was called on
ArrayOfCaller == CallersArray

FilteredArray == "fundCashflows"

\* const fundCashflows = cashflows.filter(...), then fundCashflows.sort(...)
\* unless the function has returned before it
FilterAndSort(fund, heap, sortsEmpty) ==
    LET filtered == [heap EXCEPT ![FilteredArray] = FundCashflows(fund, heap[CallersArray])]
    IN IF filtered[FilteredArray] = <<>> /\ ~sortsEmpty THEN filtered
       ELSE [filtered EXCEPT ![FilteredArray] = SortLatestFirst(filtered[FilteredArray])]

\* the arrays after FundManagement.getFundMetrics(fund)
HeapAfterGetFundMetrics(fund, heap) == FilterAndSort(fund, heap, FALSE)

\* the arrays after Dashboard.getOverallMetrics(): funds.forEach filters and
\* sorts once per fund
RECURSIVE HeapAfterGetOverallMetrics(_, _)
HeapAfterGetOverallMetrics(allFunds, heap) ==
    IF allFunds = <<>> THEN heap
    ELSE HeapAfterGetOverallMetrics(Tail(allFunds), FilterAndSort(Head(allFunds), heap, TRUE))

\* the records and arrays the metrics are called with
CashflowRecordArgs ==
    { Cashflow("fund-1", 2021, 1, 5, 0, 5),
      Cashflow("fund-1", 2022, 4, 3, 2, 7),
      Cashflow("fund-1", 2022, 2, 4, 1, 6),
      Cashflow("fund-2", 2020, 1, 6, 0, 6) }

MaxCashflowArgs == 3

CashflowArrayArgs ==
    UNION {{arr \in [1..n -> CashflowRecordArgs] :
                \A i, j \in 1..n : i # j => arr[i] # arr[j]} : n \in 0..MaxCashflowArgs}

FundListArgs == {<<>>, SubSeq(mockFunds, 1, 2)}

MetricsArgs ==
    {[fn |-> "getFundMetrics", fund |-> mockFunds[i], cashflows |-> arr] :
        i \in 1..2, arr \in CashflowArrayArgs}
    \cup
    {[fn |-> "getOverallMetrics", funds |-> list, cashflows |-> arr] :
        list \in FundListArgs, arr \in CashflowArrayArgs}

InitMetricsCall ==
    /\ InitDashboard
    /\ args \in MetricsArgs
    /\ returned = <<>>

\* getFundMetrics(fund) returns: its value, and its arguments as they are then
callGetFundMetrics ==
    /\ args # <<>>
    /\ args.fn = "getFundMetrics"
    /\ returned = <<>>
    /\ LET heap == HeapAfterGetFundMetrics(args.fund,
                        [cashflows |-> args.cashflows, fundCashflows |-> <<>>])
       IN returned' = <<[value |-> getFundMetrics(args.fund, args.cashflows),
                         fund |-> args.fund,
                         cashflows |-> heap.cashflows,
                         fundCashflows |-> heap.fundCashflows]>>
    /\ UNCHANGED <<mounted, portfolioVars, legacyVars, metricsVars, args>>

\* getOverallMetrics() returns: its value, and funds and cashflows as they are then
callGetOverallMetrics ==
    /\ args # <<>>
    /\ args.fn = "getOverallMetrics"
    /\ returned = <<>>
    /\ LET heap == HeapAfterGetOverallMetrics(args.funds,
                        [cashflows |-> args.cashflows, fundCashflows |-> <<>>])
       IN returned' = <<[value |-> getOverallMetrics(args.funds, args.cashflows),
                         funds |-> args.funds,
                         cashflows |-> heap.cashflows,
                         fundCashflows |-> heap.fundCashflows]>>
    /\ UNCHANGED <<mounted, portfolioVars, legacyVars, metricsVars, args>>

NextMetricsCall == callGetFundMetrics \/ callGetOverallMetrics

SpecMetricsCall == InitMetricsCall /\ [][NextMetricsCall]_vars

\* C16: computing metrics has no effect on its inputs: after getFundMetrics
\* and after getOverallMetrics the caller's cashflow array holds the same
\* records in the same order, and the fund (the funds) are as they were
C16_MetricsLeaveInputs ==
    returned # <<>> =>
        /\ returned[1].cashflows = args.cashflows
        /\ args.fn = "getFundMetrics" => returned[1].fund = args.fund
        /\ args.fn = "getOverallMetrics" => returned[1].funds = args.funds

\* the call sorted its own array into another order than the caller's records
\* of that fund have, and the caller's array is as it was
C16_Witness ==
    /\ returned # <<>>
    /\ args.fn = "getFundMetrics"
    /\ Len(args.cashflows) = 3
    /\ returned[1].fundCashflows # <<>>
    /\ returned[1].fundCashflows # FundCashflows(args.fund, args.cashflows)
    /\ returned[1].cashflows = args.cashflows
    /\ returned[1].value.currentNav = returned[1].fundCashflows[1].nav

\* the store's cashflow records of one general fund, in the store's order
CashflowsOfFund(store, fundId) ==
    LET OfFund(cf) == cf.fundId = fundId IN SelectSeq(store, OfFund)

\* C17: a step that deletes the general fund f leaves no GeneralFund with id f
\* and no GeneralFundNetCashflow with fundId f in the store; every other fund
\* is still there, in the same order, and every other fund's cashflow records
\* are as they were
C17_DeleteRemovesFundAndCashflows ==
    [][\A f \in GeneralFundIds :
          handleDeleteGeneralFund(f) =>
              /\ ~InSeq(f, generalFunds')
              /\ \A k \in 1..Len(generalFundCashflows') : generalFundCashflows'[k].fundId # f
              /\ \A g \in GeneralFundIds \ {f} :
                    /\ InSeq(g, generalFunds') = InSeq(g, generalFunds)
                    /\ CashflowsOfFund(generalFundCashflows', g)
                          = CashflowsOfFund(generalFundCashflows, g)
              /\ Len(generalFunds') = Len(generalFunds) - 1
              /\ Len(generalFundCashflows')
                    = Len(generalFundCashflows) - Len(CashflowsOfFund(generalFundCashflows, f))
      ]_vars

\* a fund that a position was taken in has been deleted, nothing of it is in
\* the database, and another fund is there with its cashflows
C17_Witness ==
    /\ mounted = "MainMenu"
    /\ \E p \in 1..Len(portfolioPositions) :
          /\ ~InSeq(portfolioPositions[p].fundId, generalFunds)
          /\ CashflowsOfFund(generalFundCashflows, portfolioPositions[p].fundId) = <<>>
    /\ \E g \in GeneralFundIds :
          /\ InSeq(g, generalFunds)
          /\ Len(CashflowsOfFund(generalFundCashflows, g)) = 2

\* ---------------------------------------------------------------------------
\* Delimited files: what CashflowUpload and ExcelFundUpload write and read
\* ---------------------------------------------------------------------------

\* A file is its lines, joined by a separator, and a line is its cells, joined
\* by commas.  A cell is a text (the headers "Year 1".."Year 12" carry their
\* number in k) or the digits of a number, as toFixed and toString write them.
TextCell(s) == [kind |-> "text", text |-> s, k |-> 0]
YearLabel(k) == [kind |-> "text", text |-> "Year ", k |-> k]
ToStringCell(n) == [kind |-> "fixed", digits |-> 0, scaled |-> n]

RECURSIVE Pow10(_)
Pow10(d) == IF d = 0 THEN 1 ELSE 10 * Pow10(d - 1)

\* parseInt: the integer a text starts with, NaN when it starts with no digit
ParseInt(cell) ==
    IF cell.kind = "fixed"
    THEN LET n == Abs(cell.scaled) \div Pow10(cell.digits)
         IN Integer(IF cell.scaled < 0 THEN -n ELSE n)
    ELSE NaN

\* parseFloat: the decimal a text starts with, NaN when it starts with none
ParseFloat(cell) ==
    IF cell.kind = "fixed" THEN Finite(cell.scaled, Pow10(cell.digits)) ELSE NaN

\* lines.join(separator)
JoinLines(lines, separator) == [separator |-> separator, lines |-> lines]

\* the cells of all the lines as one line
RECURSIVE Unsplit(_)
Unsplit(lines) == IF lines = <<>> THEN <<>> ELSE Head(lines) \o Unsplit(Tail(lines))

\* text.split(separator): a text joined by another separator stays one line
SplitLines(file, separator) ==
    IF file.separator = separator THEN file.lines ELSE <<Unsplit(file.lines)>>

\* the first index of the cell in the line, 0 for none (indexOf gives -1)
IndexOfCell(line, cell) ==
    IF \E i \in 1..Len(line) : line[i] = cell
    THEN CHOOSE i \in 1..Len(line) : line[i] = cell /\ \A j \in 1..(i - 1) : line[j] # cell
    ELSE 0

YearColumnCount == 12

\* the funds CashflowUpload is given, and the name that a file has for each:
\* the mock funds' names are distinct and none contains another, so a name
\* matches exactly one fund; the id stands for the name
UploadFunds == SubSeq(mockFunds, 1, 2)
FundName(fund) == fund.id

\* yearlyCashflows.find(cf => cf.year === year): <<>> or the first of that year
FindYear(yearlyCashflows, year) ==
    LET hits == {i \in 1..Len(yearlyCashflows) : yearlyCashflows[i].year = year}
    IN IF hits = {} THEN <<>>
       ELSE <<yearlyCashflows[CHOOSE i \in hits : \A j \in hits : i <= j]>>

\* yearData ? (yearData.netCashflowPercentage * 100).toFixed(2) : '0'
CashflowValue(yearlyCashflows, year) ==
    LET yearData == FindYear(yearlyCashflows, year)
    IN IF yearData = <<>> THEN ToStringCell(0)
       ELSE ToFixed(JsTimes(yearData[1].netCashflowPercentage, 100), 2)

CashflowUploadHeaders ==
    <<TextCell("Fund"), TextCell("Vintage"), TextCell("Commitment (M)")>>
        \o [i \in 1..YearColumnCount |-> YearLabel(i)]

\* CashflowUpload.downloadTemplate while nothing is uploaded: a row of '0' per fund
downloadTemplate ==
    JoinLines(<<CashflowUploadHeaders>> \o
        [f \in 1..Len(UploadFunds) |->
            <<TextCell(FundName(UploadFunds[f])),
              ToStringCell(UploadFunds[f].vintage),
              ToFixed(JsDivide(UploadFunds[f].commitmentAmount, 1000000), 0)>>
            \o [i \in 1..YearColumnCount |-> ToStringCell(0)]], "LF")

\* CashflowUpload.downloadFilledTemplate: the file it hands to the browser
downloadFilledTemplate(uploaded) ==
    IF Len(uploaded) = 0 THEN downloadTemplate
    ELSE JoinLines(<<CashflowUploadHeaders>> \o
        [r \in 1..Len(uploaded) |->
            <<TextCell(uploaded[r].fundName),
              ToStringCell(uploaded[r].vintage),
              ToFixed(JsDivide(uploaded[r].commitmentAmount, 1000000), 0)>>
            \o [i \in 1..YearColumnCount |->
                   CashflowValue(uploaded[r].yearlyCashflows, uploaded[r].vintage + i - 1)]],
        "LF")

\* headers.slice(2).map(parseInt) without the NaN ones: the columns, by index
YearColumnsOf(headers) ==
    LET IsYear(i) == i > 2 /\ ParseInt(headers[i]).kind = "finite"
        indices == SelectSeq([i \in 1..Len(headers) |-> i], IsYear)
    IN [c \in 1..Len(indices) |->
           [year |-> ParseInt(headers[indices[c]]).num, index |-> indices[c]]]

\* funds.find(f => the names contain one another): 0 or the first such fund
MatchingFund(fundName) ==
    LET hits == {f \in 1..Len(UploadFunds) : TextCell(FundName(UploadFunds[f])) = fundName}
    IN IF hits = {} THEN 0 ELSE CHOOSE f \in hits : \A g \in hits : f <= g

\* values[index]: undefined, which no parser reads a number from, beyond the
\* cells of the row
CellAt(values, index) ==
    IF index \in DOMAIN values THEN values[index] ELSE TextCell("undefined")

\* lines 118-151: the row's record, <<>> for a row that is skipped
ParsedRow(values, fundIndex, vintageIndex, yearColumns) ==
    IF Len(values) < 3 THEN <<>>
    ELSE IF ParseInt(values[vintageIndex]).kind # "finite" THEN <<>>
    ELSE IF MatchingFund(values[fundIndex]) = 0 THEN <<>>
    ELSE LET matchingFund == UploadFunds[MatchingFund(values[fundIndex])]
         IN <<[fundId |-> matchingFund.id,
               fundName |-> FundName(matchingFund),
               vintage |-> matchingFund.vintage,
               commitmentAmount |-> matchingFund.commitmentAmount,
               yearlyCashflows |-> [c \in 1..Len(yearColumns) |->
                   LET parsedValue == ParseFloat(CellAt(values, yearColumns[c].index))
                   IN [year |-> yearColumns[c].year,
                       netCashflowPercentage |->
                           IF parsedValue.kind = "NaN" THEN Integer(0) ELSE parsedValue]]]>>

\* a parse that gives up on a file with a row of no known fund
RECURSIVE ParsedRowsAllOrNothing(_, _, _, _)
ParsedRowsAllOrNothing(lines, fundIndex, vintageIndex, yearColumns) ==
    IF lines = <<>> THEN <<>>
    ELSE LET row == ParsedRow(Head(lines), fundIndex, vintageIndex, yearColumns)
             rest == ParsedRowsAllOrNothing(Tail(lines), fundIndex, vintageIndex, yearColumns)
         IN IF row = <<>> \/ (Len(lines) > 1 /\ rest = <<>>) THEN <<>> ELSE row \o rest

RECURSIVE ParsedRows(_, _, _, _)
ParsedRows(lines, fundIndex, vintageIndex, yearColumns) ==
    IF lines = <<>> THEN <<>>
    ELSE ParsedRow(Head(lines), fundIndex, vintageIndex, yearColumns)
            \o ParsedRows(Tail(lines), fundIndex, vintageIndex, yearColumns)

\* CashflowUpload.parseUploadedFile on a file: the error it sets, "" for none,
\* and the records it hands to setUploadedCashflows
ParseUploadedFile(file) ==
    LET lines == SplitLines(file, "LF")
        headers == lines[1]
        fundIndex == IndexOfCell(headers, TextCell("Fund"))
        vintageIndex == IndexOfCell(headers, TextCell("Vintage"))
        yearColumns == YearColumnsOf(headers)
        parsedData == ParsedRows(Tail(lines), fundIndex, vintageIndex, yearColumns)
        Failed(message) == [error |-> message, parsedData |-> <<>>]
    IN IF Len(lines) < 2
       THEN Failed("File must contain at least a header row and one data row")
       ELSE IF fundIndex = 0 \/ vintageIndex = 0
       THEN Failed("File must contain \"Fund\" and \"Vintage\" columns")
       ELSE IF Len(yearColumns) = 0
       THEN Failed("No valid year columns found")
       ELSE IF Len(parsedData) = 0
       THEN Failed("No valid fund data could be parsed from the file")
       ELSE [error |-> "", parsedData |-> parsedData]

ExcelHeaders ==
    <<TextCell("Fund"), TextCell("Vintage"), TextCell("Type"), TextCell("Subtype"),
      TextCell("Geography")>> \o [i \in 1..YearColumnCount |-> YearLabel(i)]

\* ExcelFundUpload.downloadCurrentData for rows in the table (without rows it
\* downloads the template, which has none of the table's data)
downloadCurrentData(uploadedData) ==
    JoinLines(<<ExcelHeaders>> \o
        [r \in 1..Len(uploadedData) |->
            <<TextCell(uploadedData[r].fund),
              ToStringCell(uploadedData[r].vintage),
              TextCell(uploadedData[r].type),
              TextCell(uploadedData[r].subtype),
              TextCell(uploadedData[r].geography)>>
            \o [i \in 1..YearColumnCount |->
                   ToFixed(JsTimes(JsOrZero(uploadedData[r].years[i]), 100), 2)]],
        "backslash n")

\* the year the upload falls in, for a row without a vintage
CurrentYear == 2026

\* lines 82-106: the fund row of a line, <<>> for a line of less than 17 columns
FundRowOf(columns) ==
    IF Len(columns) < 5 + YearColumnCount THEN <<>>
    ELSE <<[fund |-> columns[1].text,
            vintage |-> LET v == ParseInt(columns[2])
                        IN IF v.kind = "NaN" \/ v.num = 0 THEN CurrentYear ELSE v.num,
            type |-> columns[3].text,
            subtype |-> columns[4].text,
            geography |-> columns[5].text,
            years |-> [year \in 1..YearColumnCount |->
                          JsOrZero(ParseFloat(columns[year + 5]))]]>>

RECURSIVE FundRowsOf(_)
FundRowsOf(lines) ==
    IF lines = <<>> THEN <<>> ELSE FundRowOf(Head(lines)) \o FundRowsOf(Tail(lines))

\* ExcelFundUpload.handleFileUpload on a file: the toast it shows in place of
\* parsing, "" for none, and the rows it hands to setUploadedData
ExcelHandleFileUpload(file) ==
    LET lines == SplitLines(file, "backslash n")
    IN IF Len(lines) < 2 THEN [error |-> "Invalid File", parsedData |-> <<>>]
       ELSE [error |-> "", parsedData |-> FundRowsOf(Tail(lines))]

\* the percentages that are held when a file is written
HeldPercentages == {Finite(-1, 4), Integer(0), Finite(3, 20)}
MaxHeldFunds == 2

\* CashflowUpload's uploadedCashflows: a record per fund with its first years
HeldFundData(f, values) ==
    [fundId |-> UploadFunds[f].id,
     fundName |-> FundName(UploadFunds[f]),
     vintage |-> UploadFunds[f].vintage,
     commitmentAmount |-> UploadFunds[f].commitmentAmount,
     yearlyCashflows |-> [i \in 1..Len(values) |->
         [year |-> UploadFunds[f].vintage + i - 1, netCashflowPercentage |-> values[i]]]]

HeldCashflows ==
    UNION {{held \in [1..n -> {HeldFundData(f, values) :
                                  f \in 1..Len(UploadFunds),
                                  values \in [1..2 -> HeldPercentages]}] :
                \A i, j \in 1..n : i # j => held[i].fundId # held[j].fundId}
           : n \in 0..MaxHeldFunds}

\* ExcelFundUpload's uploadedData: rows as the template has them, in percent
HeldRowPercentages == {Finite(-291, 10), Integer(0), Integer(25)}

HeldFundRow(name, values) ==
    [fund |-> name, vintage |-> 2023, type |-> "FOF", subtype |-> "VC",
     geography |-> "India",
     years |-> [year \in 1..YearColumnCount |->
                   IF year <= Len(values) THEN values[year] ELSE Integer(0)]]

HeldRows ==
    UNION {{held \in [1..n -> {HeldFundRow(name, values) :
                                  name \in {"QGP II", "Alpinvest"},
                                  values \in [1..2 -> HeldRowPercentages]}] :
                \A i, j \in 1..n : i # j => held[i].fund # held[j].fund}
           : n \in 1..MaxHeldFunds}

RoundTripArgs ==
    {[fn |-> "CashflowUpload", held |-> held] : held \in HeldCashflows}
    \cup {[fn |-> "ExcelFundUpload", held |-> held] : held \in HeldRows}

InitRoundTrip ==
    /\ InitDashboard
    /\ args \in RoundTripArgs
    /\ returned = <<>>

\* the held data is downloaded: returned holds the file
callDownload ==
    /\ args # <<>>
    /\ args.fn \in {"CashflowUpload", "ExcelFundUpload"}
    /\ returned = <<>>
    /\ returned' = <<IF args.fn = "CashflowUpload"
                     THEN downloadFilledTemplate(args.held)
                     ELSE downloadCurrentData(args.held)>>
    /\ UNCHANGED <<mounted, portfolioVars, legacyVars, metricsVars, args>>

\* the downloaded file is chosen in the same component's file input:
\* returned holds the file and what the upload made of it
callUpload ==
    /\ args # <<>>
    /\ args.fn \in {"CashflowUpload", "ExcelFundUpload"}
    /\ Len(returned) = 1
    /\ returned' = Append(returned,
                          IF args.fn = "CashflowUpload"
                          THEN ParseUploadedFile(returned[1])
                          ELSE ExcelHandleFileUpload(returned[1]))
    /\ UNCHANGED <<mounted, portfolioVars, legacyVars, metricsVars, args>>

NextRoundTrip == callDownload \/ callUpload

SpecRoundTrip == InitRoundTrip /\ [][NextRoundTrip]_vars

\* |a - b| <= tolerance, of finite numbers
Within(a, b, tolerance) ==
    /\ a.kind = "finite" /\ b.kind = "finite"
    /\ Abs(a.num * b.den - b.num * a.den) * tolerance.den <= tolerance.num * a.den * b.den

\* the (fund, year) keys of held cashflows and the percentage under a key
CashflowKeys(data) ==
    UNION {{<<data[r].fundId, data[r].yearlyCashflows[i].year>> :
                i \in 1..Len(data[r].yearlyCashflows)} : r \in 1..Len(data)}

PercentagesAt(data, key) ==
    UNION {{data[r].yearlyCashflows[i].netCashflowPercentage :
                i \in {i \in 1..Len(data[r].yearlyCashflows) :
                          <<data[r].fundId, data[r].yearlyCashflows[i].year>> = key}}
           : r \in 1..Len(data)}

\* C18: held percentage cashflows that are exported to a file and imported
\* again through the upload of the same component come back: the import
\* succeeds, the (fund, year) keys are the same, and each percentage is within
\* 0.01 percentage points of the one held (0.0001 of a fraction of the
\* commitment in CashflowUpload, 0.01 of the percent values of ExcelFundUpload)
C18_RoundTrip ==
    (Len(returned) = 2 /\ args.held # <<>>) =>
        LET held == args.held
            again == returned[2].parsedData
        IN /\ returned[2].error = ""
           /\ IF args.fn = "CashflowUpload"
              THEN /\ CashflowKeys(again) = CashflowKeys(held)
                   /\ \A key \in CashflowKeys(held) :
                         \A h \in PercentagesAt(held, key), a \in PercentagesAt(again, key) :
                             Within(a, h, Finite(1, 10000))
              ELSE /\ Len(again) = Len(held)
                   /\ \A r \in 1..Len(held) :
                         /\ again[r].fund = held[r].fund
                         /\ \A year \in 1..YearColumnCount :
                               Within(again[r].years[year], held[r].years[year], Finite(1, 100))

\* ---------------------------------------------------------------------------
\* DatabaseManagement.handleExcelBulkUpload: the rows of ExcelFundUpload's
\* table become general funds and their cashflows
\* ---------------------------------------------------------------------------

\* The year values of the rows, in percent.  The values drawn are multiples of
\* 100, which the division by 100 divides exactly, so that the stored
\* percentages are integers like those of the text upload.
ExcelPercentChoices == {-100, 0, 100}

\* a FundRow: ExcelFundUpload keeps the value of Year k under the key k, and
\* the other keys of a row are names (fund, vintage, type, subtype, geography)
ExcelFundRow(year1, year6, year7) ==
    [years |-> [k \in 1..YearColumnCount |->
                   IF k = 1 THEN year1 ELSE IF k = 6 THEN year6
                   ELSE IF k = 7 THEN year7 ELSE 0]]

ExcelFundRows ==
    {ExcelFundRow(a, b, c) : a \in ExcelPercentChoices, b \in ExcelPercentChoices,
                             c \in {0, 100}}

\* the tables that are submitted, and the fresh ids their rows are given
ExcelUploads ==
    UNION {[1..n -> ExcelFundRows] : n \in 1..2}

ExcelFundIds(n) ==
    {ids \in [1..n -> GeneralFundIds] :
        /\ \A i, j \in 1..n : i # j => ids[i] # ids[j]
        /\ \A i \in 1..n : FreshFundId(ids[i])}

\* fundData[key] || 0: the row's value under that key, 0 when it has none
RowValueOrZero(fundData, key) ==
    IF key \in DOMAIN fundData.years THEN fundData.years[key] ELSE 0

\* const columnIndex = year + 5: the key the value of the year is read from
ColumnIndex(year) == year + 5

\* netCashflowPercentage / 100
PercentToDecimal(v) == v \div 100

\* lines 127-147: the cashflows of one row, those of value 0 left out
RECURSIVE ExcelRowCashflows(_, _, _)
ExcelRowCashflows(fundId, fundData, year) ==
    IF year > YearColumnCount THEN <<>>
    ELSE LET netCashflowPercentage == RowValueOrZero(fundData, ColumnIndex(year))
             made == IF netCashflowPercentage # 0
                     THEN <<[fundId |-> fundId,
                             year |-> year,
                             netCashflowPercentage |-> PercentToDecimal(netCashflowPercentage),
                             contributionsPercentage |->
                                 IF netCashflowPercentage < 0
                                 THEN PercentToDecimal(Abs(netCashflowPercentage)) ELSE 0,
                             distributionsPercentage |->
                                 IF netCashflowPercentage > 0
                                 THEN PercentToDecimal(netCashflowPercentage) ELSE 0]>>
                     ELSE <<>>
         IN made \o ExcelRowCashflows(fundId, fundData, year + 1)

RECURSIVE ExcelCashflows(_, _)
ExcelCashflows(ids, fundsData) ==
    IF fundsData = <<>> THEN <<>>
    ELSE ExcelRowCashflows(Head(ids), Head(fundsData), 1)
            \o ExcelCashflows(Tail(ids), Tail(fundsData))

\* ExcelFundUpload.handleBulkUpload submits the table and
\* DatabaseManagement.handleExcelBulkUpload stores it
handleExcelBulkUpload(ids, fundsData) ==
    /\ mounted = "MainMenu" /\ ~Crashed /\ currentView = "database"
    /\ Len(ids) = Len(fundsData)
    /\ Len(generalFundCashflows) + Len(ExcelCashflows(ids, fundsData)) <= MaxCashflows
    /\ generalFunds' = generalFunds \o ids
    /\ generalFundCashflows' = generalFundCashflows \o ExcelCashflows(ids, fundsData)
    /\ UNCHANGED <<mounted, callVars, metricsVars, legacyVars, currentView, portfolios,
                   portfolioPositions, selectedPortfolio, selectedPortfolioData>>

\* the general fund database and the operations that create and delete its
\* funds and cashflows
NextDatabase ==
    \/ \E view \in {"menu", "database"} : setCurrentView(view)
    \/ \E id \in GeneralFundIds : handleAddGeneralFund(id)
    \/ \E id \in GeneralFundIds, lines \in UploadLines : handleBulkUpload(id, lines)
    \/ \E fundsData \in ExcelUploads : \E ids \in ExcelFundIds(Len(fundsData)) :
          handleExcelBulkUpload(ids, fundsData)
    \/ \E id \in GeneralFundIds : handleDeleteGeneralFund(id)

SpecDatabase == InitMainMenu /\ [][NextDatabase]_vars

\* C19: a fund row that is bulk-uploaded through the Excel path gets, for
\* every k in 1..12 whose Year-k column holds a value v other than 0, a stored
\* GeneralFundNetCashflow with the fund's id, year = k and
\* netCashflowPercentage = v / 100
C19_ExcelYearColumnsStored ==
    [][\A fundsData \in ExcelUploads : \A ids \in ExcelFundIds(Len(fundsData)) :
          handleExcelBulkUpload(ids, fundsData) =>
              \A r \in 1..Len(fundsData) : \A k \in 1..YearColumnCount :
                  fundsData[r].years[k] # 0 =>
                      \E c \in 1..Len(generalFundCashflows') :
                          /\ generalFundCashflows'[c].fundId = ids[r]
                          /\ generalFundCashflows'[c].year = k
                          /\ generalFundCashflows'[c].netCashflowPercentage * 100
                                = fundsData[r].years[k]
      ]_vars

\* C20: whatever funds and cashflows have been created, every stored
\* GeneralFundNetCashflow has contributionsPercentage <= 0 and
\* distributionsPercentage >= 0
C20_PercentageSigns ==
    mounted = "MainMenu" =>
        \A c \in 1..Len(generalFundCashflows) :
            /\ generalFundCashflows[c].contributionsPercentage <= 0
            /\ generalFundCashflows[c].distributionsPercentage >= 0

\* C23: whatever funds have been created (fund form, Excel fund import), every
\* fund of the funds collection has commitmentAmount > 0
C23_CommitmentPositive ==
    mounted = "CashflowAnalysisView" =>
        \A i \in 1..Len(funds) : funds[i].commitmentAmount > 0

\* C24: whatever cashflows have been added, the cashflow collection holds at
\* most one record for each (fundId, year, quarter)
C24_OneRecordPerPeriod ==
    mounted = "CashflowAnalysisView" =>
        \A i, j \in 1..Len(cashflows) :
            (/\ cashflows[i].fundId = cashflows[j].fundId
             /\ cashflows[i].year = cashflows[j].year
             /\ cashflows[i].quarter = cashflows[j].quarter) => i = j

\* C25: whatever general funds have been added and deleted and whatever
\* positions have been added and removed, the fundId of every stored position
\* is the id of a general fund that is in generalFunds
C25_PositionsResolve ==
    mounted = "MainMenu" =>
        \A p \in 1..Len(portfolioPositions) :
            InSeq(portfolioPositions[p].fundId, generalFunds)

\* a + b of two finite numbers
Plus(a, b) == Finite(a.num * b.den + b.num * a.den, a.den * b.den)

\* the calls of a projection, summed over its years
RECURSIVE ProjectedCalls(_)
ProjectedCalls(projection) ==
    IF projection = <<>> THEN Integer(0)
    ELSE Plus(ProjectedCalls(SubSeq(projection, 1, Len(projection) - 1)),
              projection[Len(projection)].calls)

RECURSIVE PatternSum(_)
PatternSum(pattern) ==
    IF pattern = <<>> THEN 0 ELSE Head(pattern) + PatternSum(Tail(pattern))

\* C29: the callPattern of every fund type has avgLifespan entries that sum to
\* 100, and so the projected calls of a fund of a known type, summed over its
\* life, are its commitmentAmount under every scenario
C29_CallsSumToCommitment ==
    /\ \A k \in 1..Len(fundTypeExpectations) :
          /\ Len(fundTypeExpectations[k].callPattern) = fundTypeExpectations[k].avgLifespan
          /\ PatternSum(fundTypeExpectations[k].callPattern) = 100
    /\ (Projected /\ args.fund.fundType \in ExpectedTypes) =>
          ProjectedCalls(returned[1]) = Integer(args.fund.commitmentAmount)

C29_Witness ==
    /\ Projected
    /\ args.fund.fundType = "Credit"
    /\ args.fund.commitmentAmount = 7
    /\ args.scenario.id = "positive"
    /\ Len(returned[1]) = 6
    /\ returned[1][1].calls = Finite(7, 4)
    /\ ProjectedCalls(returned[1]) = Integer(7)

\* ---------------------------------------------------------------------------
\* The upload handlers on files of any shape
\* ---------------------------------------------------------------------------

\* uploadedCashflows after parseUploadedFile: setUploadedCashflows is reached
\* only when nothing was thrown
UploadedAfterAnyParse(held, result) == result.parsedData

UploadedAfter(held, result) == IF result.error = "" THEN result.parsedData ELSE held

\* console.warn(`No matching fund found for: ...`): the names warned about, in
\* the order of the rows; the row loop is reached with the headers in order
RECURSIVE UnmatchedNames(_, _, _)
UnmatchedNames(lines, fundIndex, vintageIndex) ==
    IF lines = <<>> THEN <<>>
    ELSE LET values == Head(lines)
             warned == IF /\ Len(values) >= 3
                          /\ ParseInt(values[vintageIndex]).kind = "finite"
                          /\ MatchingFund(values[fundIndex]) = 0
                       THEN <<values[fundIndex]>> ELSE <<>>
         IN warned \o UnmatchedNames(Tail(lines), fundIndex, vintageIndex)

Warnings(file) ==
    LET lines == SplitLines(file, "LF")
        fundIndex == IndexOfCell(lines[1], TextCell("Fund"))
        vintageIndex == IndexOfCell(lines[1], TextCell("Vintage"))
    IN IF Len(lines) < 2 \/ fundIndex = 0 \/ vintageIndex = 0
          \/ Len(YearColumnsOf(lines[1])) = 0
       THEN <<>>
       ELSE UnmatchedNames(Tail(lines), fundIndex, vintageIndex)

\* CashflowUpload.parseUploadedFile with its state: what the component holds
\* when the handler has finished, the calls of onCashflowsUploaded it made and
\* the warnings it wrote; uploadError "" is null
parseUploadedFileOutcome(held, file) ==
    LET result == ParseUploadedFile(file)
    IN [uploadedCashflows |-> UploadedAfter(held, result),
        onCashflowsUploaded |-> IF result.error = "" THEN <<result.parsedData>> ELSE <<>>,
        uploadError |-> result.error,
        isUploading |-> FALSE,
        warnings |-> Warnings(file)]

\* the header rows and data rows of the files that are uploaded
UploadHeaders ==
    { <<TextCell("Fund"), TextCell("Vintage"), ToStringCell(2020), ToStringCell(2021)>>,
      <<TextCell("Name"), TextCell("Vintage"), ToStringCell(2020), ToStringCell(2021)>>,
      <<TextCell("Fund"), TextCell("Vintage"), YearLabel(1), YearLabel(2)>> }

Decimal(scaled) == [kind |-> "fixed", digits |-> 2, scaled |-> scaled]

UploadRows ==
    { <<TextCell(FundName(UploadFunds[1])), ToStringCell(2020), Decimal(-25), Decimal(15)>>,
      <<TextCell(FundName(UploadFunds[2])), ToStringCell(2019), Decimal(-30), Decimal(10)>>,
      <<TextCell("Unknown Partners I"), ToStringCell(2020), Decimal(-20), Decimal(5)>>,
      <<TextCell(FundName(UploadFunds[1])), ToStringCell(2020)>>,
      <<TextCell(FundName(UploadFunds[1])), ToStringCell(2020), Decimal(-25)>>,
      <<TextCell(FundName(UploadFunds[1])), ToStringCell(2020), TextCell("n/a"), Decimal(15)>> }

MaxUploadRows == 2

UploadFiles ==
    {JoinLines(<<header>> \o rows, "LF") :
        header \in UploadHeaders,
        rows \in UNION {[1..n -> UploadRows] : n \in 0..MaxUploadRows}}

\* what the component holds before the upload
HeldBefore ==
    { <<>>, <<HeldFundData(2, <<Finite(-1, 4), Finite(3, 20)>>)>> }

\* BackendManagement.handleFileUpload on a file: the title of the toast it
\* shows and the calls of onExcelCashflowUpload it makes
BackendHandleFileUpload(file) ==
    LET lines == SplitLines(file, "backslash n")
        fundInfo == lines[1]
        cashflowLine == lines[2]
        yearlyNetCashflows ==
            [i \in 1..(IF Len(cashflowLine) < 13 THEN Len(cashflowLine) ELSE 13) |->
                JsOrZero(ParseFloat(cashflowLine[i]))]
        uploadData ==
            [fundName |-> CellAt(fundInfo, 1).text,
             vintage |-> ParseInt(CellAt(fundInfo, 2)),
             commitmentAmount |-> ParseFloat(CellAt(fundInfo, 3)),
             fundType |-> CellAt(fundInfo, 4).text,
             yearlyNetCashflows |-> yearlyNetCashflows]
    IN IF Len(lines) < 2
       THEN [toast |-> "Invalid File", onExcelCashflowUpload |-> <<>>]
       ELSE IF Len(yearlyNetCashflows) # 13
       THEN [toast |-> "Invalid Cashflow Data", onExcelCashflowUpload |-> <<>>]
       ELSE [toast |-> "Upload Successful", onExcelCashflowUpload |-> <<uploadData>>]

\* ExcelFundUpload.handleFileUpload with its state: the title of the toast and
\* the table after it (setUploadedData is reached when the file has two lines)
excelHandleFileUploadOutcome(held, file) ==
    LET result == ExcelHandleFileUpload(file)
    IN [toast |-> IF result.error = "" THEN "File Uploaded" ELSE result.error,
        uploadedData |-> IF result.error = "" THEN result.parsedData ELSE held]

\* the lines of the files for ExcelFundUpload: two rows in order, a row of 16
\* columns, and a row with a cell that is no number
ExcelLine(name, year1, more) ==
    <<TextCell(name), ToStringCell(2023), TextCell("FOF"), TextCell("VC"), TextCell("India")>>
        \o <<year1>> \o [i \in 1..more |-> Decimal(0)]

ExcelLines ==
    { ExcelLine("QGP II", Decimal(-2910), 11),
      ExcelLine("Alpinvest", Decimal(-1552), 11),
      ExcelLine("Quadrum", Decimal(-3853), 10),
      ExcelLine("Quadrum", TextCell("n/a"), 11) }

Separators == {"LF", "backslash n"}

ExcelFiles ==
    {JoinLines(<<ExcelHeaders>> \o rows, separator) :
        rows \in UNION {[1..n -> ExcelLines] : n \in 1..MaxUploadRows},
        separator \in Separators}

\* the files for BackendManagement: the line of the fund and the line of the
\* 13 yearly percentages, or of 12, or with a cell that is no number
FundInfoLines ==
    { <<TextCell("Fund X"), ToStringCell(2020), ToStringCell(50), TextCell("Private Equity")>>,
      <<TextCell("Fund X"), ToStringCell(2020), TextCell("n/a"), TextCell("Private Equity")>> }

CashflowLines ==
    { [i \in 1..13 |-> Decimal(-2500 + 500 * i)],
      [i \in 1..12 |-> Decimal(-2500 + 500 * i)],
      [i \in 1..13 |-> IF i = 2 THEN TextCell("n/a") ELSE Decimal(-2500 + 500 * i)] }

BackendFiles ==
    {JoinLines(<<fundInfo, cashflowLine>>, separator) :
        fundInfo \in FundInfoLines, cashflowLine \in CashflowLines,
        separator \in Separators}

UploadArgs ==
    {[fn |-> "parseUploadedFile", held |-> held, file |-> file] :
        held \in HeldBefore, file \in UploadFiles}
    \cup {[fn |-> "ExcelFundUpload.handleFileUpload", held |-> <<>>, file |-> file] :
            file \in ExcelFiles}
    \cup {[fn |-> "BackendManagement.handleFileUpload", held |-> <<>>, file |-> file] :
            file \in BackendFiles}

InitUpload ==
    /\ InitDashboard
    /\ args \in UploadArgs
    /\ returned = <<>>

callParseUploadedFile ==
    /\ args # <<>>
    /\ args.fn = "parseUploadedFile"
    /\ returned = <<>>
    /\ returned' = <<parseUploadedFileOutcome(args.held, args.file)>>
    /\ UNCHANGED <<mounted, portfolioVars, legacyVars, metricsVars, args>>

callExcelHandleFileUpload ==
    /\ args # <<>>
    /\ args.fn = "ExcelFundUpload.handleFileUpload"
    /\ returned = <<>>
    /\ returned' = <<excelHandleFileUploadOutcome(args.held, args.file)>>
    /\ UNCHANGED <<mounted, portfolioVars, legacyVars, metricsVars, args>>

callBackendHandleFileUpload ==
    /\ args # <<>>
    /\ args.fn = "BackendManagement.handleFileUpload"
    /\ returned = <<>>
    /\ returned' = <<BackendHandleFileUpload(args.file)>>
    /\ UNCHANGED <<mounted, portfolioVars, legacyVars, metricsVars, args>>

NextUpload ==
    \/ callParseUploadedFile
    \/ callExcelHandleFileUpload
    \/ callBackendHandleFileUpload

SpecUpload == InitUpload /\ [][NextUpload]_vars

\* the file of the call fails to parse: it has less than two lines, no Fund or
\* no Vintage header, no year column, or no row of it is parsed
Parsed == returned # <<>> /\ args.fn = "parseUploadedFile"

HasCell(line, cell) == \E i \in 1..Len(line) : line[i] = cell

\* a data row that parseUploadedFile makes a record of
RowIsParsed(row) ==
    /\ Len(row) >= 3
    /\ \E f \in 1..Len(UploadFunds) : row[1] = TextCell(FundName(UploadFunds[f]))

ParseFails(file) ==
    \/ Len(file.lines) < 2
    \/ ~HasCell(file.lines[1], TextCell("Fund"))
    \/ ~HasCell(file.lines[1], TextCell("Vintage"))
    \/ \A i \in 3..Len(file.lines[1]) : file.lines[1][i].kind # "fixed"
    \/ \A r \in 2..Len(file.lines) : ~RowIsParsed(file.lines[r])

\* C30: when parsing an uploaded cashflow file fails, the uploaded cashflows
\* that were held are unchanged, onCashflowsUploaded is not called, uploadError
\* is set and isUploading is false when the handler has finished; after a
\* successful parse isUploading is false as well
C30_FailedParseKeepsState ==
    Parsed =>
        /\ returned[1].isUploading = FALSE
        /\ ParseFails(args.file) =>
              /\ returned[1].uploadedCashflows = args.held
              /\ returned[1].onCashflowsUploaded = <<>>
              /\ returned[1].uploadError # ""

C30_Witness ==
    /\ Parsed
    /\ args.held # <<>>
    /\ Len(args.file.lines) = 3
    /\ HasCell(args.file.lines[1], TextCell("Fund"))
    /\ args.file.lines[1][3].kind = "fixed"
    /\ ParseFails(args.file)
    /\ returned[1].uploadError = "No valid fund data could be parsed from the file"
    /\ returned[1].uploadedCashflows = args.held

\* the file has its headers in order, so that its rows are read
HeadersInOrder(file) ==
    /\ HasCell(file.lines[1], TextCell("Fund"))
    /\ HasCell(file.lines[1], TextCell("Vintage"))
    /\ \E i \in 3..Len(file.lines[1]) : file.lines[1][i].kind = "fixed"

\* a data row whose fund name is the name of no known fund
RowIsUnmatched(row) ==
    /\ Len(row) >= 3
    /\ \A f \in 1..Len(UploadFunds) : row[1] # TextCell(FundName(UploadFunds[f]))

\* the names of the data rows that satisfy the test, in the order of the file
RowNames(file, unmatched) ==
    LET Wanted(row) == IF unmatched THEN RowIsUnmatched(row) ELSE RowIsParsed(row)
        rows == SelectSeq(Tail(file.lines), Wanted)
    IN [r \in 1..Len(rows) |-> rows[r][1]]

\* C22: a file with rows of no known fund and at least one row of a known fund
\* is not rejected: every row of a known fund is parsed and delivered, in the
\* order of the file, and a warning is written for each row of no known fund
C22_UnmatchedRowsSkipped ==
    (/\ Parsed
     /\ HeadersInOrder(args.file)
     /\ RowNames(args.file, TRUE) # <<>>
     /\ RowNames(args.file, FALSE) # <<>>) =>
        /\ returned[1].uploadError = ""
        /\ Len(returned[1].onCashflowsUploaded) = 1
        /\ LET delivered == returned[1].onCashflowsUploaded[1]
           IN /\ [r \in 1..Len(delivered) |-> TextCell(delivered[r].fundName)]
                    = RowNames(args.file, FALSE)
              /\ returned[1].uploadedCashflows = delivered
        /\ returned[1].warnings = RowNames(args.file, TRUE)

C22_Witness ==
    /\ Parsed
    /\ HeadersInOrder(args.file)
    /\ Len(args.file.lines) = 3
    /\ RowIsUnmatched(args.file.lines[2])
    /\ RowIsParsed(args.file.lines[3])
    /\ returned[1].warnings = <<TextCell("Unknown Partners I")>>
    /\ Len(returned[1].onCashflowsUploaded) = 1
    /\ Len(returned[1].onCashflowsUploaded[1]) = 1
    /\ returned[1].onCashflowsUploaded[1][1].yearlyCashflows[1].year = 2020

\* the data rows of an Excel file that are in order: 17 columns, numbers in
\* the year columns
ExcelRowInOrder(row) ==
    /\ Len(row) = 5 + YearColumnCount
    /\ \A i \in 6..Len(row) : row[i].kind = "fixed"

\* C26: a comma-separated file whose rows are separated by newline characters,
\* a header row and N >= 1 rows in order, is split into its rows: ExcelFundUpload
\* parses N fund rows of it, and BackendManagement accepts the file of the two
\* lines of a fund and its 13 percentages
C26_NewlineFilesSplit ==
    (returned # <<>> /\ args.file.separator = "LF") =>
        /\ (/\ args.fn = "ExcelFundUpload.handleFileUpload"
            /\ \A r \in 2..Len(args.file.lines) : ExcelRowInOrder(args.file.lines[r])) =>
               /\ returned[1].toast = "File Uploaded"
               /\ Len(returned[1].uploadedData) = Len(args.file.lines) - 1
        /\ (/\ args.fn = "BackendManagement.handleFileUpload"
            /\ Len(args.file.lines[2]) = 13
            /\ \A i \in 1..13 : args.file.lines[2][i].kind = "fixed"
            /\ args.file.lines[1][3].kind = "fixed") =>
               /\ returned[1].toast = "Upload Successful"
               /\ Len(returned[1].onExcelCashflowUpload) = 1

\* the file of the call is malformed: a required header is missing, a data row
\* has another number of columns than the format has, or a percentage cell
\* holds no number
Malformed ==
    LET lines == args.file.lines
    IN IF args.fn = "parseUploadedFile"
       THEN \/ ~HasCell(lines[1], TextCell("Fund"))
            \/ ~HasCell(lines[1], TextCell("Vintage"))
            \/ \E r \in 2..Len(lines) :
                  \/ Len(lines[r]) # Len(lines[1])
                  \/ \E i \in 3..Len(lines[r]) : lines[r][i].kind # "fixed"
       ELSE IF args.fn = "ExcelFundUpload.handleFileUpload"
       THEN \E r \in 2..Len(lines) : ~ExcelRowInOrder(lines[r])
       ELSE \/ Len(lines[2]) # 13
            \/ \E i \in 1..Len(lines[2]) : lines[2][i].kind # "fixed"
            \/ lines[1][3].kind # "fixed"

\* C21: when the uploaded file is malformed, the handler reports it and hands
\* on nothing that it parsed from the file: parseUploadedFile sets uploadError
\* and does not call onCashflowsUploaded, ExcelFundUpload shows a toast other
\* than "File Uploaded" and leaves its table, BackendManagement shows a toast
\* other than "Upload Successful" and does not call onExcelCashflowUpload
C21_MalformedRejected ==
    (returned # <<>> /\ Malformed) =>
        IF args.fn = "parseUploadedFile"
        THEN returned[1].uploadError # "" /\ returned[1].onCashflowsUploaded = <<>>
        ELSE IF args.fn = "ExcelFundUpload.handleFileUpload"
        THEN returned[1].toast # "File Uploaded" /\ returned[1].uploadedData = args.held
        ELSE returned[1].toast # "Upload Successful"
                /\ returned[1].onExcelCashflowUpload = <<>>


(***************************************************************************)
(* CashflowTable: the table of actual and projected cashflows by year.     *)
(* Its state (selectedFund, viewType, selectedScenario) and its props      *)
(* (funds, cashflows) are the arguments of the call.                       *)
(***************************************************************************)
Undefined == <<>>

\* Array.prototype.find: the first element that passes, in a sequence of at
\* most one element (undefined being the empty sequence)
FirstCashflowOf(arr, fundId, year) ==
    LET matches == {k \in 1..Len(arr) : arr[k].fundId = fundId /\ arr[k].year = year}
    IN IF matches = {} THEN Undefined
       ELSE <<arr[CHOOSE k \in matches : \A j \in matches : k <= j]>>

FirstOfYear(arr, year) ==
    LET matches == {k \in 1..Len(arr) : arr[k].year = year}
    IN IF matches = {} THEN Undefined
       ELSE <<arr[CHOOSE k \in matches : \A j \in matches : k <= j]>>

getCashflowData(table, fundId, year) ==
    LET actualCashflow == FirstCashflowOf(table.cashflows, fundId, year)
        fund == CHOOSE f \in {table.funds[k] : k \in 1..Len(table.funds)} : f.id = fundId
        scenario == CHOOSE sc \in {portfolioScenarios[k] : k \in 1..Len(portfolioScenarios)} :
                        sc.id = table.selectedScenario
        expectedCashflows == calculateExpectedCashflows(fund, scenario)
        projectedCashflow == FirstOfYear(expectedCashflows, year)
    IN [actual |-> actualCashflow, projected |-> projectedCashflow, fund |-> fund]

\* a || b of two numbers: 0 and NaN are falsy
Falsy(q) == q.kind = "NaN" \/ (q.kind = "finite" /\ q.num = 0)
JsOr(a, b) == IF Falsy(a) THEN b ELSE a

\* a += b
JsPlus(a, b) ==
    IF a.kind = "NaN" \/ b.kind = "NaN" THEN NaN ELSE Plus(a, b)
JsMinus(a, b) ==
    IF a.kind = "NaN" \/ b.kind = "NaN" THEN NaN
    ELSE Finite(a.num * b.den - b.num * a.den, a.den * b.den)

\* data.actual?.calls and data.projected?.calls of the code, undefined being
\* the empty sequence; the actual amounts are whole numbers
ActualAmount(data, field) ==
    IF data.actual = Undefined THEN Undefined
    ELSE IF data.actual[1][field] = Undefined THEN Undefined
    ELSE <<Integer(data.actual[1][field][1])>>
ProjectedAmount(data, field) ==
    IF data.projected = Undefined THEN Undefined ELSE <<data.projected[1][field]>>

\* x || y || 0 where x and y may be undefined
OrChain(x, y) ==
    LET first == IF x = Undefined THEN Integer(0) ELSE x[1]
        second == IF y = Undefined THEN Integer(0) ELSE y[1]
    IN JsOr(JsOr(first, second), Integer(0))
OrZero(x) == OrChain(x, Undefined)

NoTotals ==
    [totalCalls |-> Integer(0), totalDistributions |-> Integer(0),
     totalNav |-> Integer(0), totalFees |-> Integer(0),
     totalCarry |-> Integer(0), totalTax |-> Integer(0)]

\* the body of the forEach of getYearTotals for one fund
AddFundToTotals(table, totals, fund, year) ==
    LET data == getCashflowData(table, fund.id, year)
    IN IF table.viewType = "actual" /\ data.actual # Undefined
       THEN [totalCalls |-> JsPlus(totals.totalCalls, ActualAmount(data, "calls")[1]),
             totalDistributions |->
                 JsPlus(totals.totalDistributions, ActualAmount(data, "distributions")[1]),
             totalNav |-> JsPlus(totals.totalNav, ActualAmount(data, "nav")[1]),
             totalFees |-> JsPlus(totals.totalFees, OrZero(ActualAmount(data, "managementFees"))),
             totalCarry |->
                 JsPlus(totals.totalCarry, OrZero(ActualAmount(data, "carriedInterest"))),
             totalTax |-> JsPlus(totals.totalTax, OrZero(ActualAmount(data, "taxes")))]
       ELSE IF table.viewType = "projected" /\ data.projected # Undefined
       THEN [totals EXCEPT
                !.totalCalls = JsPlus(@, data.projected[1].calls),
                !.totalDistributions = JsPlus(@, data.projected[1].distributions),
                !.totalNav = JsPlus(@, data.projected[1].nav)]
       ELSE IF table.viewType = "combined"
       THEN [totalCalls |->
                 JsPlus(totals.totalCalls,
                        OrChain(ActualAmount(data, "calls"), ProjectedAmount(data, "calls"))),
             totalDistributions |->
                 JsPlus(totals.totalDistributions,
                        OrChain(ActualAmount(data, "distributions"),
                                ProjectedAmount(data, "distributions"))),
             totalNav |->
                 JsPlus(totals.totalNav,
                        OrChain(ActualAmount(data, "nav"), ProjectedAmount(data, "nav"))),
             totalFees |-> JsPlus(totals.totalFees, OrZero(ActualAmount(data, "managementFees"))),
             totalCarry |->
                 JsPlus(totals.totalCarry, OrZero(ActualAmount(data, "carriedInterest"))),
             totalTax |-> JsPlus(totals.totalTax, OrZero(ActualAmount(data, "taxes")))]
       ELSE totals

RECURSIVE TotalsOver(_, _, _)
TotalsOver(table, fundsToInclude, year) ==
    IF fundsToInclude = <<>> THEN NoTotals
    ELSE AddFundToTotals(table,
                         TotalsOver(table,
                                    SubSeq(fundsToInclude, 1, Len(fundsToInclude) - 1), year),
                         fundsToInclude[Len(fundsToInclude)], year)

getYearTotals(table, year, fundsToInclude) ==
    LET totals == TotalsOver(table, fundsToInclude, year)
    IN [totalCalls |-> totals.totalCalls,
        totalDistributions |-> totals.totalDistributions,
        totalNav |-> totals.totalNav,
        totalFees |-> totals.totalFees,
        totalCarry |-> totals.totalCarry,
        totalTax |-> totals.totalTax,
        netCashflow |-> JsMinus(totals.totalDistributions, totals.totalCalls)]

\* selectedFund === 'all' ? funds : funds.filter(f => f.id === selectedFund)
RECURSIVE FundsWithId(_, _)
FundsWithId(arr, id) ==
    IF arr = <<>> THEN <<>>
    ELSE IF Head(arr).id = id THEN <<Head(arr)>> \o FundsWithId(Tail(arr), id)
    ELSE FundsWithId(Tail(arr), id)

fundsToShow(table) ==
    IF table.selectedFund = "all" THEN table.funds
    ELSE FundsWithId(table.funds, table.selectedFund)

\* the props and state the table is rendered with
TableFunds ==
    << [id |-> "fund-1", vintage |-> 2020, commitmentAmount |-> 200, fundType |-> "Buyout"],
       [id |-> "fund-2", vintage |-> 2021, commitmentAmount |-> 200, fundType |-> "Credit"] >>

TableCashflow(fundId, year, quarter, calls, distributions, nav, managementFees) ==
    [fundId |-> fundId, year |-> year, quarter |-> quarter,
     calls |-> <<calls>>, distributions |-> <<distributions>>, nav |-> <<nav>>,
     managementFees |-> managementFees, carriedInterest |-> Undefined, taxes |-> Undefined]

TableCashflowArgs ==
    {TableCashflow("fund-1", 2021, 1, 10, 4, 10, <<1>>),
     TableCashflow("fund-1", 2021, 2, 20, 6, 28, Undefined),
     TableCashflow("fund-1", 2021, 4, 30, 0, 0, Undefined),
     TableCashflow("fund-2", 2021, 3, 0, 0, 50, <<2>>),
     TableCashflow("fund-2", 2022, 1, 15, 5, 60, Undefined)}

MaxTableCashflows == 2

TableCashflowSeqs ==
    UNION {[1..n -> TableCashflowArgs] : n \in 0..MaxTableCashflows}

TableArgs ==
    {[fn |-> "getYearTotals",
      table |-> [funds |-> TableFunds, cashflows |-> cfs, selectedFund |-> sf,
                 viewType |-> vt, selectedScenario |-> portfolioScenarios[s].id],
      year |-> y] :
        cfs \in TableCashflowSeqs, sf \in {"all", "fund-1"},
        vt \in {"actual", "projected", "combined"},
        s \in 1..Len(portfolioScenarios), y \in {2021, 2022}}

InitTable ==
    /\ InitDashboard
    /\ args \in TableArgs
    /\ returned = <<>>

\* one cell of the summary: getYearTotals(year, fundsToShow)
callGetYearTotals ==
    /\ args # <<>>
    /\ args.fn = "getYearTotals"
    /\ returned = <<>>
    /\ returned' = <<getYearTotals(args.table, args.year, fundsToShow(args.table))>>
    /\ UNCHANGED <<mounted, portfolioVars, legacyVars, metricsVars, args>>

NextTable == callGetYearTotals

SpecTable == InitTable /\ [][NextTable]_vars

Totalled == returned # <<>> /\ args.fn = "getYearTotals"

\* the actual records of the included funds in the year, in every quarter
IncludedRecords ==
    {k \in 1..Len(args.table.cashflows) :
        /\ args.table.cashflows[k].year = args.year
        /\ InSeq(args.table.cashflows[k].fundId,
                 [j \in 1..Len(fundsToShow(args.table)) |-> fundsToShow(args.table)[j].id])}

RECURSIVE SumOfField(_, _)
SumOfField(indices, field) ==
    IF indices = {} THEN 0
    ELSE LET k == CHOOSE j \in indices : TRUE
         IN args.table.cashflows[k][field][1] + SumOfField(indices \ {k}, field)

\* C27: in the actual view the total calls and the total distributions of a
\* year are the sums over all actual records of the included funds in that
\* year, whatever their quarter
C27_ActualTotalsSumAllQuarters ==
    (Totalled /\ args.table.viewType = "actual") =>
        /\ returned[1].totalCalls = Integer(SumOfField(IncludedRecords, "calls"))
        /\ returned[1].totalDistributions =
               Integer(SumOfField(IncludedRecords, "distributions"))

\* what a fund adds to a total of the combined view when its actual record of
\* the year stands for it: the record's own amount, and the projected amount
\* only where there is no record
RECURSIVE CombinedExpected(_, _)
CombinedExpected(fundsToInclude, field) ==
    IF fundsToInclude = <<>> THEN Integer(0)
    ELSE LET data == getCashflowData(args.table, Head(fundsToInclude).id, args.year)
             amount == IF data.actual # Undefined THEN ActualAmount(data, field)[1]
                       ELSE IF data.projected # Undefined THEN data.projected[1][field]
                       ELSE Integer(0)
         IN JsPlus(amount, CombinedExpected(Tail(fundsToInclude), field))

\* C28: in the combined view a fund that has an actual record in the year
\* enters the year's totals with the record's calls, distributions and nav,
\* never with projected values, also where the record's amount is 0
C28_CombinedUsesActual ==
    (Totalled /\ args.table.viewType = "combined") =>
        /\ returned[1].totalCalls = CombinedExpected(fundsToShow(args.table), "calls")
        /\ returned[1].totalDistributions =
               CombinedExpected(fundsToShow(args.table), "distributions")
        /\ returned[1].totalNav = CombinedExpected(fundsToShow(args.table), "nav")

====
